---- MODULE Spec2Model ----
(***************************************************************************)
(* Verification model of the tatua ticketing app's data grid engine        *)
(* (js/table.js, createDynamicTable) and of its query evaluator            *)
(* (js/services/ticket.js processTickets, old table processData).          *)
(*                                                                         *)
(* Spec      the grid engine as an event-driven state machine: every       *)
(*           action is one DOM/API handler or one completion of an         *)
(*           awaited dataSource call together with the continuation that   *)
(*           runs in the same microtask checkpoint (fetchServerData's      *)
(*           try/catch/finally and refresh's update()).                    *)
(* SpecEval  the filter step of the query evaluator applied to bounded     *)
(*           record collections and rule sets.                             *)
(* SpecSort  the sort step of the query evaluator, under either of two     *)
(*           Array.prototype.sort implementations.                         *)
(* SpecStore the storage strategies (memory, session, local) with the      *)
(*           cipher working or failing open and setItem free to throw.     *)
(* SpecApp   the ticket App: form submit, storage switch and refresh, each *)
(*           ending with loadTickets.                                      *)
(* SpecPage  the table that pages its own data (old table fetchData).      *)
(* SpecSlot  the storage strategies over a slot holding any payload, with  *)
(*           the cipher free to start or stop working between calls.       *)
(* SpecCrypto encryptAES and decryptAES applied to bounded texts.          *)
(* SpecEditor the rule editor modals of the grid engine (setupModal) and   *)
(*           of the App (openSortModal .. applyFilters).                   *)
(* SpecServed the grid engine over a provider that pages a collection,     *)
(*           its triggers fired one after the other.                       *)
(* SpecTwin  the memory strategy and a durable strategy driven by the      *)
(*           same calls, the cipher working.                               *)
(* SpecQuery loadTickets, fetchData and CRUD over arrays with identity:    *)
(*           which array a sort in place reorders.                         *)
(* SpecReload the ticket App across reloads of the page (new App()).       *)
(***************************************************************************)
EXTENDS Integers, Sequences, FiniteSets, TLC

\* ------------------------------------------------------------------ bounds

\* Fetches that may be in flight at once.
MaxInFlight == 2
\* Largest totalCount the data provider reports.
MaxCount == 5
\* Longest record collection handed to the query evaluator.
MaxRecs == 2
\* Longest filter rule set handed to the query evaluator.
MaxEvalRules == 2

\* ----------------------------------------------------------------- helpers

Max(a, b) == IF a >= b THEN a ELSE b
Min(a, b) == IF a <= b THEN a ELSE b

\* Math.ceil(a / b) for a >= 0, b >= 1.
Ceil(a, b) == (a + b - 1) \div b

SeqsUpTo(S, n) == UNION {[1..k -> S] : k \in 0..n}

\* The value undefined; strings are sequences of single characters, so no
\* string of the model equals it.
Undefined == <<"undefined">>

\* ------------------------------------------------------- grid engine values

\* Filter rules as the filter modal's stateReaderFn builds them.
GridFilterRules ==
    { [column |-> "subject", operator |-> "contains", value |-> "bug"],
      [column |-> "id", operator |-> "eq", value |-> "T1"] }

\* Sort rules as the sort modal's stateReaderFn builds them.
GridSortRules == { [column |-> "dateCreated", order |-> "desc"] }

\* The rule sets the engine is given.
GridFilterSets ==
    { <<>>,
      <<[column |-> "subject", operator |-> "contains", value |-> "bug"]>>,
      <<[column |-> "subject", operator |-> "contains", value |-> "bug"],
        [column |-> "id", operator |-> "eq", value |-> "T1"]>> }
GridSortSets == { <<>>, <<[column |-> "dateCreated", order |-> "desc"]>> }

\* The configured pagination.pageSize values.
PageSizes == {2}

\* What the awaited dataSource call can produce:
\*   reject  the promise rejects, or dataSource throws
\*   null    it resolves to null/undefined (destructuring throws)
\*   object  it resolves to an object; `data` may not be an array and
\*           `totalCount` may be missing.
Responses ==
    { [kind |-> "reject", dataIsArray |-> FALSE, data |-> <<>>,
       hasCount |-> FALSE, totalCount |-> 0],
      [kind |-> "null", dataIsArray |-> FALSE, data |-> <<>>,
       hasCount |-> FALSE, totalCount |-> 0] }
    \cup { [kind |-> "object", dataIsArray |-> TRUE, data |-> <<>>,
            hasCount |-> TRUE, totalCount |-> n] : n \in 0..MaxCount }
    \cup { [kind |-> "object", dataIsArray |-> TRUE, data |-> <<"r1">>,
            hasCount |-> TRUE, totalCount |-> n] : n \in 1..MaxCount }
    \cup { [kind |-> "object", dataIsArray |-> FALSE, data |-> <<>>,
            hasCount |-> TRUE, totalCount |-> MaxCount],
           [kind |-> "object", dataIsArray |-> TRUE, data |-> <<"r1">>,
            hasCount |-> FALSE, totalCount |-> 0],
           [kind |-> "object", dataIsArray |-> FALSE, data |-> <<>>,
            hasCount |-> FALSE, totalCount |-> 0] }

\* No response: the history of a handler that settles no fetch.
NoResponse ==
    [kind |-> "none", dataIsArray |-> FALSE, data |-> <<>>,
     hasCount |-> FALSE, totalCount |-> 0]

VARIABLES
    \* createDynamicTable: state
    data, totalCount, totalPages, currentPage, filters, sorters, selectedRows,
    \* createDynamicTable: settings.pagination
    pageSize, paginationEnabled,
    \* DOM: wrapper's is-loading class, the rendered pagination buttons
    isLoading, pager,
    \* dataSource calls not yet settled, in issue order: for each, whether a
    \* fetch issued after it has already settled
    inflight,
    \* the PageRequest of the most recent dataSource call
    lastRequest,
    \* history: the handler that ran last; for a commit, currentPage before
    \* it ran; for a settled fetch, the provider's response and whether a
    \* later-issued fetch had settled before it
    hist,
    \* how the promise of the refresh() that settled last settled
    refreshed,
    \* query evaluator: input records, filter rules, result
    records, rules, result,
    \* query evaluator, sort step: the sort rules, the build's
    \* Array.prototype.sort, the result
    chain, sortImpl, sorted,
    \* storage: MemoryStorage.tickets, the sessionStorage and localStorage
    \* slots, whether CryptoJS works, the strategy the caller holds, and the
    \* last call on it with its outcome
    memoryTickets, slots, cipherOk, strategy, storeHist,
    \* App: the selected storage, the committed rule sets, the list
    \* rendered by loadTickets
    currentStorage, currentFilters, currentSorters, rendered,
    \* rule editor modals: which component of the page they belong to, the
    \* App handler that ran last, and for the filter and the sort modal
    \* whether it is visible and its rows
    editor,
    \* older grid engine with local data: its settings.pagination and state
    local

gridVars == <<data, totalCount, totalPages, currentPage, filters, sorters,
              selectedRows, pageSize, paginationEnabled, isLoading, pager,
              inflight, lastRequest, hist, refreshed>>
evalVars == <<records, rules, result>>
sortVars == <<chain, sortImpl, sorted>>
storeVars == <<memoryTickets, slots, cipherOk, strategy, storeHist>>
appVars == <<currentStorage, currentFilters, currentSorters, rendered>>
localVars == <<local>>
editorVars == <<editor>>
serviceVars == <<sortVars, storeVars, appVars, localVars, editorVars>>
vars == <<gridVars, evalVars, serviceVars>>

\* The services outside the grid engine and the filter step, not in use.
SortIdle ==
    chain = <<>> /\ sortImpl = "insertion" /\ sorted = [done |-> FALSE, out |-> <<>>]
\* storage.getItem on a slot never written: null.
NoItem == [kind |-> "null"]
StoreIdle ==
    /\ memoryTickets = <<>>
    /\ slots = [s \in {"session", "local"} |-> NoItem]
    /\ cipherOk = TRUE
    /\ strategy = "memory"
    /\ storeHist = [op |-> "none"]
AppIdle ==
    /\ currentStorage = "memory"
    /\ currentFilters = <<>> /\ currentSorters = <<>>
    /\ rendered = <<>>
LocalIdle == local = [done |-> FALSE]
\* The modals as the page loads them: hidden, without rows.
NoModal == [visible |-> FALSE, rows |-> <<>>]
EditorIdle ==
    editor = [host |-> "none", last |-> [op |-> "none", key |-> "none"], filter |-> NoModal, sort |-> NoModal]
ServicesIdle == SortIdle /\ StoreIdle /\ AppIdle /\ LocalIdle /\ EditorIdle

\* ------------------------------------------------------------- grid engine

\* The PageRequest fetchServerData hands to dataSource.
PageRequest(page, f, s) ==
    [page |-> page, pageSize |-> pageSize, sorters |-> s, filters |-> f]

\* renderPagination: what update() puts into the pagination element.
RenderPagination(cur, tp) ==
    IF ~paginationEnabled
    THEN [present |-> FALSE, prevDisabled |-> TRUE, nextDisabled |-> TRUE]
    ELSE [present |-> TRUE,
          prevDisabled |-> (cur <= 1),
          nextDisabled |-> (cur >= Max(1, tp))]

\* state.totalPages as fetchServerData's try block computes it.
TotalPagesOf(count) ==
    IF paginationEnabled THEN Ceil(count, pageSize) ELSE 1

\* state.currentPage as fetchServerData's try block clamps it.
ClampPage(cur, tp) == Max(1, Min(cur, IF tp = 0 THEN 1 ELSE tp))

\* Whether the try block of fetchServerData throws on this response.
Throws(resp) == resp.kind \in {"reject", "null"}

\* The engine fields after fetchServerData settled on resp:
\* try block on an object, catch block otherwise.
Settled(resp) ==
    IF Throws(resp)
    THEN [data |-> <<>>, totalCount |-> 0,
          totalPages |-> totalPages, currentPage |-> currentPage]
    ELSE LET count == IF resp.hasCount THEN resp.totalCount ELSE 0
             tp == TotalPagesOf(count)
         IN  [data |-> IF resp.dataIsArray THEN resp.data ELSE <<>>,
              totalCount |-> count,
              totalPages |-> tp,
              currentPage |-> ClampPage(currentPage, tp)]

\* elements.wrapper's is-loading class after the finally block, with
\* `remaining` fetches still in flight.
LoadingAfterSettle(remaining) == FALSE

\* The kind of a response, for the history.
Outcome(resp) ==
    IF resp.kind # "object" THEN resp.kind
    ELSE IF resp.dataIsArray /\ resp.hasCount THEN "ok"
    ELSE IF resp.hasCount THEN "noArray"
    ELSE IF resp.dataIsArray THEN "noCount"
    ELSE "noFields"

Hist(op, page, resp, overtaken) ==
    [op |-> op, page |-> page, resp |-> resp, overtaken |-> overtaken]

\* How the promise of refresh() settles when dataSource answered resp: the
\* catch block of fetchServerData handles every throw of its try block.
RefreshSettles(resp) == "fulfilled"

\* After createDynamicTable returned: initialRender and manageExternalControls
\* ran, and refresh() is suspended in its first dataSource call.
Init ==
    /\ data = <<>>
    /\ totalCount = 0
    /\ totalPages = 1
    /\ currentPage = 1
    /\ filters = <<>>
    /\ sorters = <<>>
    /\ selectedRows = {}
    /\ pageSize \in PageSizes
    /\ paginationEnabled \in BOOLEAN
    /\ isLoading = TRUE
    /\ pager = [present |-> FALSE, prevDisabled |-> TRUE, nextDisabled |-> TRUE]
    /\ inflight = <<[overtaken |-> FALSE]>>
    /\ lastRequest = PageRequest(1, <<>>, <<>>)
    /\ hist = Hist("create", 0, NoResponse, FALSE)
    /\ refreshed = "pending"
    /\ records = <<>>
    /\ rules = <<>>
    /\ result = [done |-> FALSE, out |-> <<>>]
    /\ ServicesIdle

\* refresh() up to its await: fetchServerData marks the wrapper loading and
\* calls dataSource with the current state.
IssueFetch(page, f, s) ==
    /\ Len(inflight) < MaxInFlight
    /\ isLoading' = TRUE
    /\ inflight' = Append(inflight, [overtaken |-> FALSE])
    /\ lastRequest' = PageRequest(page, f, s)

\* Click on the rendered "Previous" button.
ClickPrev ==
    /\ pager.present /\ ~pager.prevDisabled
    /\ currentPage' = currentPage - 1
    /\ IssueFetch(currentPage', filters, sorters)
    /\ hist' = Hist("page", 0, NoResponse, FALSE)
    /\ UNCHANGED <<data, totalCount, totalPages, filters, sorters,
                   selectedRows, pageSize, paginationEnabled, pager, refreshed>>
    /\ UNCHANGED <<evalVars, serviceVars>>

\* Click on the rendered "Next" button.
ClickNext ==
    /\ pager.present /\ ~pager.nextDisabled
    /\ currentPage' = currentPage + 1
    /\ IssueFetch(currentPage', filters, sorters)
    /\ hist' = Hist("page", 0, NoResponse, FALSE)
    /\ UNCHANGED <<data, totalCount, totalPages, filters, sorters,
                   selectedRows, pageSize, paginationEnabled, pager, refreshed>>
    /\ UNCHANGED <<evalVars, serviceVars>>

\* The returned API's refresh(), or a click on the refresh trigger.
Refresh ==
    /\ IssueFetch(currentPage, filters, sorters)
    /\ hist' = Hist("refresh", 0, NoResponse, FALSE)
    /\ UNCHANGED <<data, totalCount, totalPages, currentPage, filters, sorters,
                   selectedRows, pageSize, paginationEnabled, pager, refreshed>>
    /\ UNCHANGED <<evalVars, serviceVars>>

\* A faulty variant of PageAfterCommit: the handlers keep the page.
PageAfterCommit_Stale(cur) == cur

\* state.currentPage as the modal's submit and reset handlers set it.
PageAfterCommit(cur) == 1

\* Submit of the filter modal: stateReaderFn(modal) yields newRules.
SubmitFilters(newRules) ==
    /\ filters' = newRules
    /\ currentPage' = PageAfterCommit(currentPage)
    /\ IssueFetch(currentPage', filters', sorters)
    /\ hist' = Hist("commit", currentPage, NoResponse, FALSE)
    /\ UNCHANGED <<data, totalCount, totalPages, sorters, selectedRows,
                   pageSize, paginationEnabled, pager, refreshed>>
    /\ UNCHANGED <<evalVars, serviceVars>>

\* Reset of the filter modal.
ResetFilters ==
    /\ filters' = <<>>
    /\ currentPage' = PageAfterCommit(currentPage)
    /\ IssueFetch(currentPage', filters', sorters)
    /\ hist' = Hist("commit", currentPage, NoResponse, FALSE)
    /\ UNCHANGED <<data, totalCount, totalPages, sorters, selectedRows,
                   pageSize, paginationEnabled, pager, refreshed>>
    /\ UNCHANGED <<evalVars, serviceVars>>

\* Submit of the sort modal.
SubmitSorters(newRules) ==
    /\ sorters' = newRules
    /\ currentPage' = PageAfterCommit(currentPage)
    /\ IssueFetch(currentPage', filters, sorters')
    /\ hist' = Hist("commit", currentPage, NoResponse, FALSE)
    /\ UNCHANGED <<data, totalCount, totalPages, filters, selectedRows,
                   pageSize, paginationEnabled, pager, refreshed>>
    /\ UNCHANGED <<evalVars, serviceVars>>

\* Reset of the sort modal.
ResetSorters ==
    /\ sorters' = <<>>
    /\ currentPage' = PageAfterCommit(currentPage)
    /\ IssueFetch(currentPage', filters, sorters')
    /\ hist' = Hist("commit", currentPage, NoResponse, FALSE)
    /\ UNCHANGED <<data, totalCount, totalPages, filters, selectedRows,
                   pageSize, paginationEnabled, pager, refreshed>>
    /\ UNCHANGED <<evalVars, serviceVars>>

\* A faulty variant of Applies: a response that a later-issued fetch has
\* overtaken is discarded.
Applies_DiscardOvertaken(i) == ~inflight[i].overtaken

\* Whether the engine applies the response of the i-th in-flight fetch.
Applies(i) == TRUE

\* The fetches still in flight once the i-th has settled; those issued
\* before it have been overtaken.
Remaining(i) ==
    [k \in 1..(Len(inflight) - 1) |->
        IF k < i THEN [inflight[k] EXCEPT !.overtaken = TRUE]
        ELSE inflight[k + 1]]

\* The i-th in-flight dataSource call settles with resp: the rest of
\* fetchServerData runs, then refresh's update().
Complete(i, resp) ==
    /\ i \in 1..Len(inflight)
    /\ LET new == IF Applies(i) THEN Settled(resp)
                  ELSE [data |-> data, totalCount |-> totalCount,
                        totalPages |-> totalPages, currentPage |-> currentPage]
       IN  /\ data' = new.data
           /\ totalCount' = new.totalCount
           /\ totalPages' = new.totalPages
           /\ currentPage' = new.currentPage
           /\ pager' = RenderPagination(new.currentPage, new.totalPages)
    /\ inflight' = Remaining(i)
    /\ isLoading' = LoadingAfterSettle(Len(inflight'))
    /\ hist' = Hist("complete", 0, resp, inflight[i].overtaken)
    /\ refreshed' = RefreshSettles(resp)
    /\ UNCHANGED <<filters, sorters, selectedRows, pageSize, paginationEnabled,
                   lastRequest>>
    /\ UNCHANGED <<evalVars, serviceVars>>

\* An array after a caller's mutation of it: length = 0, or push(x).
MutatedArray(arr, how, x) ==
    IF how = "clear" THEN <<>> ELSE Append(arr, x)

\* getState() is a spread copy of state with a new Set for selectedRows: the
\* filters, sorters and data of the returned object are the engine's own
\* arrays. A caller calls getState() and mutates the returned object's
\* filters array.
GetStateMutateFilters(how, x) ==
    /\ MutatedArray(filters, how, x) \in GridFilterSets
    /\ filters' = MutatedArray(filters, how, x)
    /\ hist' = Hist("mutate", 0, NoResponse, FALSE)
    /\ UNCHANGED <<data, totalCount, totalPages, currentPage, sorters,
                   selectedRows, pageSize, paginationEnabled, isLoading, pager,
                   inflight, lastRequest, refreshed>>
    /\ UNCHANGED <<evalVars, serviceVars>>

\* A caller calls getState() and mutates the returned object's sorters array.
GetStateMutateSorters(how, x) ==
    /\ MutatedArray(sorters, how, x) \in GridSortSets
    /\ sorters' = MutatedArray(sorters, how, x)
    /\ hist' = Hist("mutate", 0, NoResponse, FALSE)
    /\ UNCHANGED <<data, totalCount, totalPages, currentPage, filters,
                   selectedRows, pageSize, paginationEnabled, isLoading, pager,
                   inflight, lastRequest, refreshed>>
    /\ UNCHANGED <<evalVars, serviceVars>>

\* A caller calls getState() and empties the returned object's data array.
GetStateMutateData ==
    /\ data' = MutatedArray(data, "clear", "r1")
    /\ hist' = Hist("mutate", 0, NoResponse, FALSE)
    /\ UNCHANGED <<totalCount, totalPages, currentPage, filters, sorters,
                   selectedRows, pageSize, paginationEnabled, isLoading, pager,
                   inflight, lastRequest, refreshed>>
    /\ UNCHANGED <<evalVars, serviceVars>>

\* A caller calls getState() and adds a key to the returned object's
\* selectedRows, the Set getState() created for it.
GetStateMutateSelection(key) ==
    /\ hist' = Hist("mutate", 0, NoResponse, FALSE)
    /\ UNCHANGED <<data, totalCount, totalPages, currentPage, filters, sorters,
                   selectedRows, pageSize, paginationEnabled, isLoading, pager,
                   inflight, lastRequest, refreshed>>
    /\ UNCHANGED <<evalVars, serviceVars>>

MutateSnapshot ==
    \/ \E how \in {"clear", "push"}, x \in GridFilterRules :
          GetStateMutateFilters(how, x)
    \/ \E how \in {"clear", "push"}, x \in GridSortRules :
          GetStateMutateSorters(how, x)
    \/ GetStateMutateData
    \/ GetStateMutateSelection("r1")

Next ==
    \/ ClickPrev
    \/ ClickNext
    \/ Refresh
    \/ \E r \in GridFilterSets : SubmitFilters(r)
    \/ ResetFilters
    \/ \E r \in GridSortSets : SubmitSorters(r)
    \/ ResetSorters
    \/ \E i \in 1..MaxInFlight, resp \in Responses : Complete(i, resp)
    \/ MutateSnapshot

Spec == Init /\ [][Next]_vars

\* --------------------------------------------------------- query evaluator

\* Strings are sequences of characters; String.prototype.toLowerCase.
LowerChar(c) == CASE c = "A" -> "a" [] c = "B" -> "b" [] OTHER -> c
\* A faulty variant of ToLowerCase: the case is kept.
ToLowerCase_Identity(str) == str
ToLowerCase(str) == [k \in 1..Len(str) |-> LowerChar(str[k])]

\* String.prototype.includes, startsWith, endsWith.
Includes(str, part) ==
    \E k \in 0..(Len(str) - Len(part)) : SubSeq(str, k + 1, k + Len(part)) = part
StartsWith(str, part) ==
    Len(part) <= Len(str) /\ SubSeq(str, 1, Len(part)) = part
EndsWith(str, part) ==
    Len(part) <= Len(str)
        /\ SubSeq(str, Len(str) - Len(part) + 1, Len(str)) = part

\* (ticket[column] || '').toString(): a field the ticket lacks reads as
\* undefined and becomes the empty string; tickets hold string fields.
FieldOrEmpty(ticket, column) ==
    IF column \in DOMAIN ticket /\ ticket[column] # Undefined
    THEN ticket[column] ELSE <<>>

\* The callback of filters.every: one rule against one ticket.
RuleMatches(ticket, filter) ==
    LET ticketValue == ToLowerCase(FieldOrEmpty(ticket, filter.column))
        filterValue == ToLowerCase(filter.value)
    IN  CASE filter.relation = "equals" -> ticketValue = filterValue
          [] filter.relation = "contains" -> Includes(ticketValue, filterValue)
          [] filter.relation = "startsWith" -> StartsWith(ticketValue, filterValue)
          [] filter.relation = "endsWith" -> EndsWith(ticketValue, filterValue)
          [] OTHER -> TRUE

\* A faulty variant of EveryRule: filters.some in place of filters.every.
EveryRule_Some(ticket, ruleSet) ==
    \E k \in 1..Len(ruleSet) : RuleMatches(ticket, ruleSet[k])

\* filters.every(...): how the rules of a set combine for one ticket.
EveryRule(ticket, ruleSet) ==
    \A k \in 1..Len(ruleSet) : RuleMatches(ticket, ruleSet[k])

\* Array.prototype.filter with the every-callback, front to back.
RECURSIVE ArrayFilter(_, _)
ArrayFilter(tickets, ruleSet) ==
    IF tickets = <<>> THEN <<>>
    ELSE (IF EveryRule(Head(tickets), ruleSet) THEN <<Head(tickets)>> ELSE <<>>)
            \o ArrayFilter(Tail(tickets), ruleSet)

\* The filter step of processTickets / processData / loadTickets: a copy
\* of the input, filtered when there is a rule.
FilterStep(tickets, ruleSet) ==
    IF Len(ruleSet) > 0 THEN ArrayFilter(tickets, ruleSet) ELSE tickets

\* Ticket ids, by position in the collection.
TicketIds == <<"T1", "T2", "T3", "T4", "T5", "T6">>

\* The subject of a sample ticket; `has` is FALSE for a ticket without one.
SubjectSamples ==
    { [has |-> FALSE, v |-> <<>>],
      [has |-> TRUE, v |-> <<>>],
      [has |-> TRUE, v |-> <<"a">>],
      [has |-> TRUE, v |-> <<"A", "b">>],
      [has |-> TRUE, v |-> <<"b", "A">>],
      [has |-> TRUE, v |-> <<"b", "a", "b">>] }

Ticket(i, subj) ==
    IF subj.has THEN [id |-> <<TicketIds[i]>>, subject |-> subj.v]
    ELSE [id |-> <<TicketIds[i]>>]

\* Collections of up to MaxRecs tickets with distinct ids.
TicketCollections ==
    UNION { { [i \in 1..n |-> Ticket(i, subjects[i])] :
                subjects \in [1..n -> SubjectSamples] } : n \in 0..MaxRecs }

Relations == {"equals", "contains", "startsWith", "endsWith"}

\* Filter rules {column, relation, value}: on the subject with an empty and
\* a non-empty value, on a column no ticket has, and one with a relation
\* the evaluator does not know.
RuleSamples ==
    { [column |-> "subject", relation |-> r, value |-> v] :
        r \in Relations, v \in { <<>>, <<"A">> } }
    \cup { [column |-> "phone", relation |-> r, value |-> <<"A">>] :
             r \in Relations }
    \cup { [column |-> "phone", relation |-> "equals", value |-> <<>>],
           [column |-> "subject", relation |-> "eq", value |-> <<"A">>] }

FilterRuleSets == SeqsUpTo(RuleSamples, MaxEvalRules)

\* The grid engine, not created.
GridIdle ==
    /\ data = <<>> /\ totalCount = 0 /\ totalPages = 1 /\ currentPage = 1
    /\ filters = <<>> /\ sorters = <<>> /\ selectedRows = {}
    /\ pageSize = 2 /\ paginationEnabled = FALSE
    /\ isLoading = FALSE
    /\ pager = [present |-> FALSE, prevDisabled |-> TRUE, nextDisabled |-> TRUE]
    /\ inflight = <<>>
    /\ lastRequest = PageRequest(1, <<>>, <<>>)
    /\ hist = Hist("none", 0, NoResponse, FALSE)
    /\ refreshed = "pending"

\* A collection of tickets and a rule set, not yet evaluated.
EvalInit ==
    /\ GridIdle
    /\ ServicesIdle
    /\ records \in TicketCollections
    /\ rules \in FilterRuleSets
    /\ result = [done |-> FALSE, out |-> <<>>]

\* The filter step runs on a copy of the collection.
ApplyFilter ==
    /\ ~result.done
    /\ result' = [done |-> TRUE, out |-> FilterStep(records, rules)]
    /\ UNCHANGED <<records, rules>>
    /\ UNCHANGED <<gridVars, serviceVars>>

EvalNext == ApplyFilter

SpecEval == EvalInit /\ [][EvalNext]_vars

\* ------------------------------------------------------ grid engine claims

engineState == <<data, totalCount, totalPages, currentPage, filters, sorters,
                 selectedRows>>

\* C1: in every reachable state of the grid engine,
\* 1 <= currentPage <= max(1, totalPages).
C1_PageInRange ==
    1 <= currentPage /\ currentPage <= Max(1, totalPages)

\* C2: after every completed refresh, succeeded or failed, totalPages is
\* ceil(totalCount / pageSize) with pagination enabled and 1 without.
C2_TotalPagesFormula ==
    hist.op = "complete" =>
        totalPages = IF paginationEnabled THEN Ceil(totalCount, pageSize) ELSE 1

\* C3: a commit of a filter or sorter rule set (submit or reset of a rule
\* editor modal) replaces the rule set wholesale, sets currentPage to 1 and
\* issues one fetch whose PageRequest has page 1 and exactly the engine's
\* new rule sets, never the page that was current before the commit.
C3_CommitFetchesPageOne ==
    [][ /\ hist'.op = "commit" =>
            /\ currentPage' = 1
            /\ Len(inflight') = Len(inflight) + 1
            /\ lastRequest' = [page |-> 1, pageSize |-> pageSize,
                               sorters |-> sorters', filters |-> filters']
        /\ \A r \in GridFilterSets :
              SubmitFilters(r) => filters' = r /\ sorters' = sorters
        /\ ResetFilters => filters' = <<>> /\ sorters' = sorters
        /\ \A r \in GridSortSets :
              SubmitSorters(r) => sorters' = r /\ filters' = filters
        /\ ResetSorters => sorters' = <<>> /\ filters' = filters
      ]_vars

\* C3 witness: a commit of a non-empty filter set from a page beyond 1 has
\* reset the page and requested page 1 with the new filters.
C3_Witness ==
    /\ hist.op = "commit" /\ hist.page > 1
    /\ currentPage = 1
    /\ filters # <<>>
    /\ lastRequest.page = 1 /\ lastRequest.filters = filters

\* What the claims say a settled fetch writes: the response on success,
\* empty data and a count of 0 on failure.
WrittenData(resp) ==
    IF resp.kind = "object" /\ resp.dataIsArray THEN resp.data ELSE <<>>
WrittenCount(resp) ==
    IF resp.kind = "object" /\ resp.hasCount THEN resp.totalCount ELSE 0

\* C4: when the fetch that settles last settles (no fetch remains in
\* flight), data and totalCount become exactly what that fetch wrote,
\* whatever its place in the order of issue.
C4_LastCompletedWins ==
    (hist.op = "complete" /\ inflight = <<>>) =>
        /\ data = WrittenData(hist.resp)
        /\ totalCount = WrittenCount(hist.resp)

\* C4 witness: all fetches have settled, and the one that settled last had
\* been overtaken by a fetch issued after it; its response is what shows.
C4_Witness ==
    /\ hist.op = "complete" /\ hist.overtaken /\ Outcome(hist.resp) = "ok"
    /\ inflight = <<>>
    /\ data = <<"r1">> /\ totalCount > 0

\* C5: the busy flag is set exactly in the states with a fetch in flight.
C5_BusyWhileInFlight ==
    isLoading <=> (Len(inflight) > 0)

\* A response C6 counts as a failure of the provider: a rejection or throw,
\* or a resolved value that is not a well-formed PageResult.
IsFailure(resp) ==
    \/ resp.kind \in {"reject", "null"}
    \/ ~resp.dataIsArray
    \/ ~resp.hasCount

\* C6: on every failure of the provider refresh() does not
\* reject, data becomes empty, totalCount becomes 0, the committed rule
\* sets stay and no further fetch is issued.
C6_FailureEmptiesView ==
    [][ (hist'.op = "complete" /\ IsFailure(hist'.resp)) =>
              /\ refreshed' = "fulfilled"
              /\ data' = <<>>
              /\ totalCount' = 0
              /\ filters' = filters /\ sorters' = sorters
              /\ Len(inflight') = Len(inflight) - 1
              /\ lastRequest' = lastRequest
      ]_vars

\* C7: a page-change request results in a fetch whose page lies within
\* [1, totalPages] (a request for the current page, which this engine's
\* Previous and Next buttons cannot express, would issue none).
C7_PageChangeInRange ==
    hist.op = "page" =>
        (1 <= lastRequest.page /\ lastRequest.page <= totalPages)

\* C8: no mutation of the object getState() returned changes the engine's
\* own state.
C8_SnapshotIsolated ==
    [][ MutateSnapshot => UNCHANGED engineState ]_vars

\* -------------------------------------------------- query evaluator claims

\* A string with its case folded, and the four relations of the rule model,
\* as the claims state them: absent fields count as the empty string.
Fold(str) == [k \in 1..Len(str) |->
                 IF str[k] = "A" THEN "a" ELSE IF str[k] = "B" THEN "b" ELSE str[k]]
FieldText(rec, column) == IF column \in DOMAIN rec THEN rec[column] ELSE <<>>
Satisfies(rec, rule) ==
    LET f == Fold(FieldText(rec, rule.column))
        v == Fold(rule.value)
    IN  CASE rule.relation = "equals" -> f = v
          [] rule.relation = "contains" ->
                \E a \in 1..(Len(f) + 1), b \in 0..Len(f) : SubSeq(f, a, b) = v
          [] rule.relation = "startsWith" ->
                \E b \in 0..Len(f) : SubSeq(f, 1, b) = v
          [] rule.relation = "endsWith" ->
                \E a \in 1..(Len(f) + 1) : SubSeq(f, a, Len(f)) = v

KnownRelations == \A k \in 1..Len(rules) : rules[k].relation \in Relations

\* The positions of the input records that satisfy every rule.
KeptPositions ==
    {i \in 1..Len(records) : \A k \in 1..Len(rules) : Satisfies(records[i], rules[k])}
\* The j-th of them, counting from the front.
NthKept(j) ==
    CHOOSE i \in KeptPositions : Cardinality({m \in KeptPositions : m <= i}) = j

\* C9: the filter step returns exactly the input records that satisfy every
\* rule, each once and in their input order; all of them for no rule.
C9_FilterIsOrderedSelection ==
    (result.done /\ KnownRelations) =>
        /\ Len(result.out) = Cardinality(KeptPositions)
        /\ \A j \in 1..Len(result.out) : result.out[j] = records[NthKept(j)]
        /\ rules = <<>> => result.out = records

\* C9 witness: two rules and two records; the first record satisfies one
\* rule only and is dropped, the second satisfies both and is kept.
C9_Witness ==
    /\ result.done /\ KnownRelations
    /\ Len(rules) = 2 /\ Len(records) = 2
    /\ Satisfies(records[1], rules[1]) /\ ~Satisfies(records[1], rules[2])
    /\ result.out = <<records[2]>>

OutputIds == {result.out[j].id : j \in 1..Len(result.out)}

MaxSortRecs == 3
MaxChain == 2

\* UTF-16 code units of the characters in use.
CharCode(c) ==
    CASE c = "1" -> 49 [] c = "2" -> 50 [] c = "A" -> 65 [] c = "B" -> 66
      [] c = "a" -> 97 [] c = "b" -> 98

\* x < y on two strings: by code units, a proper prefix first.
RECURSIVE StrLess(_, _)
StrLess(x, y) ==
    IF y = <<>> THEN FALSE
    ELSE IF x = <<>> THEN TRUE
    ELSE IF Head(x) = Head(y) THEN StrLess(Tail(x), Tail(y))
    ELSE CharCode(Head(x)) < CharCode(Head(y))

\* a[sorter.column]: the field, or undefined for a field the record lacks.
FieldOf(rec, column) ==
    IF column \in DOMAIN rec /\ rec[column] # Undefined
    THEN [def |-> TRUE, v |-> rec[column]]
    ELSE [def |-> FALSE, v |-> <<>>]

\* valA > valB and valA < valB: undefined converts to NaN and every
\* comparison with NaN is false.
JsGreater(valA, valB) == valA.def /\ valB.def /\ StrLess(valB.v, valA.v)
JsLess(valA, valB) == valA.def /\ valB.def /\ StrLess(valA.v, valB.v)

\* A faulty variant of Comparator: every rule compares ascending.
RECURSIVE Comparator_OrderIgnored(_, _, _)
Comparator_OrderIgnored(a, b, sortRules) ==
    IF sortRules = <<>> THEN 0
    ELSE LET sorter == Head(sortRules)
             valA == FieldOf(a, sorter.column)
             valB == FieldOf(b, sorter.column)
             comparison == IF JsGreater(valA, valB) THEN 1
                           ELSE IF JsLess(valA, valB) THEN -1 ELSE 0
         IN  IF comparison # 0 THEN comparison
             ELSE Comparator_OrderIgnored(a, b, Tail(sortRules))

\* The comparator handed to sort: the loop over the sorters.
RECURSIVE Comparator(_, _, _)
Comparator(a, b, sortRules) ==
    IF sortRules = <<>> THEN 0
    ELSE LET sorter == Head(sortRules)
             valA == FieldOf(a, sorter.column)
             valB == FieldOf(b, sorter.column)
             comparison == IF JsGreater(valA, valB) THEN 1
                           ELSE IF JsLess(valA, valB) THEN -1 ELSE 0
         IN  IF comparison # 0
             THEN (IF sorter.order = "asc" THEN comparison ELSE 0 - comparison)
             ELSE Comparator(a, b, Tail(sortRules))

\* Array.prototype.sort is stable, and for a comparator that is not
\* consistent its order is implementation-defined: two stable algorithms
\* stand for the builds, a straight insertion sort and a top-down merge sort.
SortImpls == {"insertion", "merge"}

\* x inserted from the right into a sorted prefix.
RECURSIVE InsertSorted(_, _, _)
InsertSorted(prefix, x, sortRules) ==
    IF prefix = <<>> THEN <<x>>
    ELSE LET last == prefix[Len(prefix)]
         IN  IF Comparator(last, x, sortRules) > 0
             THEN InsertSorted(SubSeq(prefix, 1, Len(prefix) - 1), x, sortRules)
                      \o <<last>>
             ELSE prefix \o <<x>>

RECURSIVE InsertionSort(_, _)
InsertionSort(arr, sortRules) ==
    IF arr = <<>> THEN <<>>
    ELSE InsertSorted(InsertionSort(SubSeq(arr, 1, Len(arr) - 1), sortRules),
                      arr[Len(arr)], sortRules)

\* The merge of two sorted runs, the left run first on a tie.
RECURSIVE Merge(_, _, _)
Merge(l, r, sortRules) ==
    IF l = <<>> THEN r
    ELSE IF r = <<>> THEN l
    ELSE IF Comparator(Head(r), Head(l), sortRules) < 0
         THEN <<Head(r)>> \o Merge(l, Tail(r), sortRules)
         ELSE <<Head(l)>> \o Merge(Tail(l), r, sortRules)

RECURSIVE MergeSort(_, _)
MergeSort(arr, sortRules) ==
    IF Len(arr) <= 1 THEN arr
    ELSE LET mid == Len(arr) \div 2
         IN  Merge(MergeSort(SubSeq(arr, 1, mid), sortRules),
                   MergeSort(SubSeq(arr, mid + 1, Len(arr)), sortRules),
                   sortRules)

\* arr.sort(comparator) on the build impl.
ArraySort(arr, sortRules, impl) ==
    IF impl = "insertion" THEN InsertionSort(arr, sortRules)
    ELSE MergeSort(arr, sortRules)

\* The sort step of processTickets / processData / loadTickets: it runs
\* for every chain, the empty one included.
SortStep(tickets, sortRules) == ArraySort(tickets, sortRules, sortImpl)

\* processTickets: the filter step, then the sort step.
ProcessTickets(tickets, ruleSet, sortRules) ==
    SortStep(FilterStep(tickets, ruleSet), sortRules)

\* Sample tickets for sorting: a subject, or none, and a creation time.
SortSubjects ==
    { [has |-> FALSE, v |-> <<>>], [has |-> TRUE, v |-> <<"a">>],
      [has |-> TRUE, v |-> <<"b">>] }
SortDates == { <<"1">>, <<"2">> }
SortTicket(i, subj, date) ==
    IF subj.has
    THEN [id |-> <<TicketIds[i]>>, subject |-> subj.v, dateCreated |-> date]
    ELSE [id |-> <<TicketIds[i]>>, dateCreated |-> date]
SortCollections ==
    UNION { { [i \in 1..n |-> SortTicket(i, subjects[i], dates[i])] :
                subjects \in [1..n -> SortSubjects], dates \in [1..n -> SortDates] }
            : n \in 0..MaxSortRecs }

\* Sort rules {column, order}; phone is a column no ticket has.
SortRuleSamples ==
    { [column |-> "subject", order |-> "asc"],
      [column |-> "subject", order |-> "desc"],
      [column |-> "dateCreated", order |-> "desc"],
      [column |-> "phone", order |-> "asc"] }
SortChains == SeqsUpTo(SortRuleSamples, MaxChain)

\* The filter step, not in use.
EvalIdle ==
    records = <<>> /\ rules = <<>> /\ result = [done |-> FALSE, out |-> <<>>]

\* A collection of tickets and a chain of sort rules, not yet sorted.
SortInit ==
    /\ GridIdle
    /\ rules = <<>> /\ result = [done |-> FALSE, out |-> <<>>]
    /\ records \in SortCollections
    /\ chain \in SortChains
    /\ sortImpl \in SortImpls
    /\ sorted = [done |-> FALSE, out |-> <<>>]
    /\ StoreIdle /\ AppIdle /\ LocalIdle /\ EditorIdle

\* The sort step runs on a copy of the collection.
ApplySort ==
    /\ ~sorted.done
    /\ sorted' = [done |-> TRUE, out |-> SortStep(records, chain)]
    /\ UNCHANGED <<chain, sortImpl>>
    /\ UNCHANGED <<gridVars, evalVars, storeVars, appVars, localVars, editorVars>>

SortNext == ApplySort

SpecSort == SortInit /\ [][SortNext]_vars

\* ---------------------------------------------------------- sorting claims

\* The order the claims give to field values: a field the record lacks is
\* the lowest value, below every string.
ValueBelow(va, vb) ==
    \/ ~va.def /\ vb.def
    \/ va.def /\ vb.def /\ StrLess(va.v, vb.v)
\* Rule r puts a before b; rule r leaves a and b tied.
RulePuts(a, b, r) ==
    IF r.order = "asc"
    THEN ValueBelow(FieldOf(a, r.column), FieldOf(b, r.column))
    ELSE ValueBelow(FieldOf(b, r.column), FieldOf(a, r.column))
RuleTies(a, b, r) == ~RulePuts(a, b, r) /\ ~RulePuts(b, a, r)
\* The first rule of the chain on which a and b are not tied puts a first.
ChainPuts(a, b) ==
    \E k \in 1..Len(chain) :
        /\ \A m \in 1..(k - 1) : RuleTies(a, b, chain[m])
        /\ RulePuts(a, b, chain[k])
ChainTies(a, b) == \A k \in 1..Len(chain) : RuleTies(a, b, chain[k])
\* The place of a record in the input collection.
InputPlace(rec) == CHOOSE i \in 1..Len(records) : records[i].id = rec.id

\* C11: the sorted output is a permutation of the input in which the first
\* rule that does not tie two records decides their order, tied records
\* keep their input order, and an empty chain returns the input order.
C11_SortIsStableChainOrder ==
    sorted.done =>
        /\ Len(sorted.out) = Len(records)
        /\ {sorted.out[i] : i \in 1..Len(sorted.out)}
              = {records[i] : i \in 1..Len(records)}
        /\ \A i, j \in 1..Len(sorted.out) :
              i < j =>
                 /\ ~ChainPuts(sorted.out[j], sorted.out[i])
                 /\ ChainTies(sorted.out[i], sorted.out[j])
                       => InputPlace(sorted.out[i]) < InputPlace(sorted.out[j])
        /\ chain = <<>> => sorted.out = records

\* C12: a record that lacks the sorted field orders below every record that
\* has it, comparing equal under the chain is transitive, and the result
\* does not depend on the sort algorithm of the build.
C12_AbsentSortsLowest ==
    sorted.done =>
        /\ \A i, j \in 1..Len(sorted.out) :
              (/\ chain # <<>>
               /\ ~FieldOf(sorted.out[i], chain[1].column).def
               /\ FieldOf(sorted.out[j], chain[1].column).def)
                  => IF chain[1].order = "asc" THEN i < j ELSE j < i
        /\ \A a, b, c \in {records[i] : i \in 1..Len(records)} :
              (Comparator(a, b, chain) = 0 /\ Comparator(b, c, chain) = 0)
                  => Comparator(a, c, chain) = 0
        /\ ArraySort(records, chain, "insertion") = ArraySort(records, chain, "merge")

Reverse(seq) == [i \in 1..Len(seq) |-> seq[Len(seq) + 1 - i]]
FlipFirst(sortRules) ==
    [sortRules EXCEPT ![1].order = IF @ = "asc" THEN "desc" ELSE "asc"]

\* C13: for a non-empty chain and a collection in which no two records tie
\* on the first rule's column, sorting with the first rule's direction
\* flipped gives the reverse of the sorted output.
C13_FlipReverses ==
    (/\ sorted.done
     /\ chain # <<>>
     /\ \A i, j \in 1..Len(records) :
           i # j => ~RuleTies(records[i], records[j], chain[1]))
        => SortStep(records, FlipFirst(chain)) = Reverse(sorted.out)

\* ------------------------------------------------------- storage strategies

\* Longest stored collection.
MaxStored == 3

\* MemoryStorage, SessionStorage, LocalStorage; the last two are
\* PersistentStorage over a slot of a Web Storage area.
Strategies == {"memory", "session", "local"}
Durable == {"session", "local"}

\* JSON.stringify of one record: a property whose value is undefined is
\* left out.
StringifyRecord(rec) ==
    [f \in {g \in DOMAIN rec : rec[g] # Undefined} |-> rec[f]]
\* JSON.stringify(tickets): the text of the array.
JSONStringify(list) ==
    [kind |-> "json", array |-> [i \in 1..Len(list) |-> StringifyRecord(list[i])]]
\* JSON.parse(str): the array of a JSON text of an array; a value that is
\* no array (null, a number, an object) for other well-formed JSON texts;
\* it throws on any other string.
JSONParse(str) ==
    IF str.kind = "json" THEN [ok |-> TRUE, isArray |-> TRUE, val |-> str.array]
    ELSE IF str.kind = "jsonOther"
    THEN [ok |-> TRUE, isArray |-> FALSE, val |-> <<>>]
    ELSE [ok |-> FALSE, isArray |-> FALSE, val |-> <<>>]

\* The empty string.
EmptyText == [kind |-> "empty"]

\* encryptAES: the ciphertext, or the text itself when CryptoJS throws.
EncryptAES(text) ==
    IF cipherOk THEN [kind |-> "cipher", text |-> text] ELSE text
\* CryptoJS.AES.decrypt(ciphertext, CIPHER_KEY) then bytes.toString(Utf8)
\* with the library at work: the plaintext of a ciphertext made with the
\* key; for a ciphertext that was tampered with or made with another key,
\* what the unauthenticated cipher happens to yield (an exception for
\* malformed UTF-8, the empty string, or some text); an exception or
\* nothing for a string that is no ciphertext at all.
CryptoJSDecrypt(ciphertext) ==
    IF ciphertext.kind = "cipher" THEN [threw |-> FALSE, text |-> ciphertext.text]
    ELSE IF ciphertext.kind = "tampered" THEN ciphertext.yields
    ELSE [threw |-> TRUE, text |-> EmptyText]

\* A faulty variant of DecryptAES: the input comes back as it is.
DecryptAES_ReturnsInput(ciphertext) == ciphertext

\* decryptAES: the decrypted text; the input itself when CryptoJS throws
\* or the decrypted text is empty.
DecryptAES(ciphertext) ==
    IF ~cipherOk THEN ciphertext
    ELSE LET bytes == CryptoJSDecrypt(ciphertext)
         IN  IF bytes.threw \/ bytes.text.kind = "empty" THEN ciphertext
             ELSE bytes.text

\* !stored: getItem gave null or the empty string.
NotStored(stored) == stored.kind \in {"null", "empty"}

\* PersistentStorage.getTickets on the content of its slot.
PersistentGetTickets(stored) ==
    IF NotStored(stored) THEN <<>>
    ELSE LET parsed == JSONParse(DecryptAES(stored))
         IN  IF parsed.ok THEN parsed.val ELSE <<>>

\* Whether getTickets() of strategy s returns a value that is no array:
\* unshift, find, filter and findIndex on it are a TypeError.
NotArray(s) ==
    /\ s # "memory"
    /\ ~NotStored(slots[s])
    /\ LET parsed == JSONParse(DecryptAES(slots[s]))
       IN  parsed.ok /\ ~parsed.isArray

\* getTickets() of strategy s.
GetTickets(s) ==
    IF s = "memory" THEN memoryTickets ELSE PersistentGetTickets(slots[s])

\* A faulty variant of Find: the last record with the id.
Find_Last(list, ticketId) ==
    LET hits == {i \in 1..Len(list) : list[i].id = ticketId}
    IN  IF hits = {} THEN <<>>
        ELSE <<list[CHOOSE i \in hits : \A j \in hits : j <= i]>>

\* tickets.find(t => t.id === ticketId): the first record with the id as a
\* one-element sequence, the empty sequence for undefined.
Find(list, ticketId) ==
    LET hits == {i \in 1..Len(list) : list[i].id = ticketId}
    IN  IF hits = {} THEN <<>>
        ELSE <<list[CHOOSE i \in hits : \A j \in hits : i <= j]>>

\* getTicket(ticketId) of strategy s.
GetTicket(s, ticketId) == Find(GetTickets(s), ticketId)

\* tickets.findIndex(t => t.id === ticketId), counting from 1; -1 for none.
FindIndex(list, ticketId) ==
    LET hits == {i \in 1..Len(list) : list[i].id = ticketId}
    IN  IF hits = {} THEN -1
        ELSE CHOOSE i \in hits : \A j \in hits : i <= j

\* A faulty variant of Unshift: the record is appended.
Unshift_Push(list, ticket) == list \o <<ticket>>

\* tickets.unshift(ticket).
Unshift(list, ticket) == <<ticket>> \o list

\* A faulty variant of Spread: the updated data is dropped.
Spread_KeepsOld(ticket, updatedData) == ticket

\* { ...ticket, ...updatedData }.
Spread(ticket, updatedData) ==
    [f \in DOMAIN ticket \cup DOMAIN updatedData |->
        IF f \in DOMAIN updatedData THEN updatedData[f] ELSE ticket[f]]

\* A faulty variant of WithoutId: only the first record with the id goes.
WithoutId_First(list, ticketId) ==
    LET hits == {i \in 1..Len(list) : list[i].id = ticketId}
        first == CHOOSE i \in hits : \A j \in hits : i <= j
    IN  IF hits = {} THEN list
        ELSE [k \in 1..(Len(list) - 1) |-> list[IF k < first THEN k ELSE k + 1]]

\* tickets.filter(t => t.id !== ticketId).
WithoutId(list, ticketId) == SelectSeq(list, LAMBDA t : t.id # ticketId)

\* The strategy s keeps list as its collection: MemoryStorage holds the
\* array, PersistentStorage.saveToStorage writes its encrypted JSON text to
\* the slot, and setItem throws when the area refuses the write.
Keep(s, list, writeOk) ==
    IF s = "memory" THEN memoryTickets' = list /\ UNCHANGED slots
    ELSE IF writeOk
    THEN /\ slots' = [slots EXCEPT ![s] = EncryptAES(JSONStringify(list))]
         /\ UNCHANGED memoryTickets
    ELSE UNCHANGED <<memoryTickets, slots>>

\* saveTicket, deleteTicket and updateTicket of strategy s.
SaveTicket(s, ticket, writeOk) ==
    IF NotArray(s) THEN UNCHANGED <<memoryTickets, slots>>
    ELSE Keep(s, Unshift(GetTickets(s), ticket), writeOk)
DeleteTicket(s, ticketId, writeOk) ==
    IF NotArray(s) THEN UNCHANGED <<memoryTickets, slots>>
    ELSE Keep(s, WithoutId(GetTickets(s), ticketId), writeOk)
UpdateTicket(s, ticketId, updatedData, writeOk) ==
    LET list == GetTickets(s)
        index == FindIndex(list, ticketId)
    IN  IF NotArray(s) THEN UNCHANGED <<memoryTickets, slots>>
        ELSE IF index # -1
        THEN Keep(s, [list EXCEPT ![index] = Spread(list[index], updatedData)],
                  writeOk)
        ELSE UNCHANGED <<memoryTickets, slots>>

\* Whether a call that keeps a collection on s throws: only setItem does.
WriteThrows(s, writeOk) == s \in Durable /\ ~writeOk

\* Records handed to saveTicket, and data handed to updateTicket.
StoreIds == { <<"T1">>, <<"T2">> }
StoreTickets ==
    { [id |-> i, subject |-> v] : i \in StoreIds, v \in { <<"a">>, <<"b">> } }
    \cup { [id |-> <<"T1">>, subject |-> Undefined] }
UpdatedDatas ==
    { [subject |-> <<"b">>], [subject |-> Undefined], [id |-> <<"T2">>] }

\* Outcomes of setItem a caller of strategy s can meet.
WriteOutcomes(s) == IF s \in Durable THEN BOOLEAN ELSE {TRUE}

StoreHist(op, id, arg, threw, got) ==
    [op |-> op, id |-> id, arg |-> arg, threw |-> threw, got |-> got]

\* One strategy, freshly constructed over an empty slot.
StoreInit ==
    /\ GridIdle /\ EvalIdle /\ SortIdle /\ AppIdle /\ LocalIdle /\ EditorIdle
    /\ memoryTickets = <<>>
    /\ slots = [s \in Durable |-> NoItem]
    /\ cipherOk \in BOOLEAN
    /\ strategy \in Strategies
    /\ storeHist = [op |-> "none"]

StoreSave(ticket, writeOk) ==
    /\ Len(GetTickets(strategy)) < MaxStored
    /\ SaveTicket(strategy, ticket, writeOk)
    /\ storeHist' = StoreHist("save", ticket.id, ticket,
                              NotArray(strategy) \/ WriteThrows(strategy, writeOk),
                              <<>>)
    /\ UNCHANGED <<cipherOk, strategy>>
    /\ UNCHANGED <<gridVars, evalVars, sortVars, appVars, localVars, editorVars>>

StoreUpdate(ticketId, updatedData, writeOk) ==
    /\ UpdateTicket(strategy, ticketId, updatedData, writeOk)
    /\ storeHist' = StoreHist("update", ticketId, updatedData,
                              \/ NotArray(strategy)
                              \/ /\ FindIndex(GetTickets(strategy), ticketId) # -1
                                 /\ WriteThrows(strategy, writeOk),
                              <<>>)
    /\ UNCHANGED <<cipherOk, strategy>>
    /\ UNCHANGED <<gridVars, evalVars, sortVars, appVars, localVars, editorVars>>

StoreDelete(ticketId, writeOk) ==
    /\ DeleteTicket(strategy, ticketId, writeOk)
    /\ storeHist' = StoreHist("delete", ticketId, <<>>,
                              NotArray(strategy) \/ WriteThrows(strategy, writeOk),
                              <<>>)
    /\ UNCHANGED <<cipherOk, strategy>>
    /\ UNCHANGED <<gridVars, evalVars, sortVars, appVars, localVars, editorVars>>

StoreGet(ticketId) ==
    /\ storeHist' = StoreHist("get", ticketId, <<>>, NotArray(strategy),
                              GetTicket(strategy, ticketId))
    /\ UNCHANGED <<memoryTickets, slots, cipherOk, strategy>>
    /\ UNCHANGED <<gridVars, evalVars, sortVars, appVars, localVars, editorVars>>

StoreList ==
    /\ storeHist' = StoreHist("list", <<>>, <<>>, FALSE, GetTickets(strategy))
    /\ UNCHANGED <<memoryTickets, slots, cipherOk, strategy>>
    /\ UNCHANGED <<gridVars, evalVars, sortVars, appVars, localVars, editorVars>>

StoreNext ==
    \/ \E t \in StoreTickets, w \in WriteOutcomes(strategy) : StoreSave(t, w)
    \/ \E i \in StoreIds, u \in UpdatedDatas, w \in WriteOutcomes(strategy) :
          StoreUpdate(i, u, w)
    \/ \E i \in StoreIds, w \in WriteOutcomes(strategy) : StoreDelete(i, w)
    \/ \E i \in StoreIds : StoreGet(i)
    \/ StoreList

SpecStore == StoreInit /\ [][StoreNext]_vars

\* Strings a slot of a Web Storage area can hold when a strategy is
\* constructed over it: texts that are no ciphertext, ciphertexts made with
\* the key, and ciphertexts that were tampered with or made with another
\* key, named by what decrypting them yields.
PlainSamples ==
    { EmptyText, [kind |-> "garbage"], [kind |-> "jsonOther"],
      JSONStringify(<<>>),
      JSONStringify(<<[id |-> <<"T1">>, subject |-> <<"a">>]>>) }
CipherSamples == { [kind |-> "cipher", text |-> t] : t \in PlainSamples }
TamperedSamples ==
    { [kind |-> "tampered", yields |-> y] :
        y \in { [threw |-> TRUE, text |-> EmptyText] }
               \cup { [threw |-> FALSE, text |-> t] :
                        t \in { EmptyText, [kind |-> "garbage"],
                                [kind |-> "jsonOther"] } } }
SlotSamples == {NoItem} \cup PlainSamples \cup CipherSamples \cup TamperedSamples

\* One strategy constructed over a slot that holds any string, or nothing.
SlotInit ==
    /\ GridIdle /\ EvalIdle /\ SortIdle /\ AppIdle /\ LocalIdle /\ EditorIdle
    /\ memoryTickets = <<>>
    /\ strategy \in Strategies
    /\ \E stored \in SlotSamples :
          slots = [s \in Durable |->
                    IF s = strategy THEN stored ELSE NoItem]
    /\ cipherOk \in BOOLEAN
    /\ storeHist = [op |-> "none"]

\* The CryptoJS calls start or stop throwing (the library is missing or
\* back after a reload of the page).
CipherChange ==
    /\ cipherOk' = ~cipherOk
    /\ UNCHANGED <<memoryTickets, slots, strategy, storeHist>>
    /\ UNCHANGED <<gridVars, evalVars, sortVars, appVars, localVars, editorVars>>

SlotNext ==
    \/ StoreNext
    \/ CipherChange

SpecSlot == SlotInit /\ [][SlotNext]_vars

\* encryptAES and decryptAES on their own: the strings handed to them, and
\* what the last call was handed and returned. Neither call throws: the
\* whole body of each is inside its try block and the catch returns.
CryptoTexts == PlainSamples \cup CipherSamples \cup TamperedSamples

CryptoInit ==
    /\ GridIdle /\ EvalIdle /\ SortIdle /\ AppIdle /\ LocalIdle /\ EditorIdle
    /\ memoryTickets = <<>>
    /\ slots = [s \in Durable |-> NoItem]
    /\ strategy = "memory"
    /\ cipherOk \in BOOLEAN
    /\ storeHist = [op |-> "none"]

\* encryptAES(text); failed tells whether the catch block ran.
CryptoEncrypt(text) ==
    /\ storeHist' = [op |-> "encrypt", arg |-> text, threw |-> FALSE,
                     failed |-> ~cipherOk, got |-> EncryptAES(text)]
    /\ UNCHANGED <<memoryTickets, slots, cipherOk, strategy>>
    /\ UNCHANGED <<gridVars, evalVars, sortVars, appVars, localVars, editorVars>>

\* decryptAES(ciphertext); plain holds the text whose encryption the
\* ciphertext is, when it is what the last encryptAES call returned.
CryptoDecrypt(ciphertext) ==
    /\ storeHist' = [op |-> "decrypt", arg |-> ciphertext, threw |-> FALSE,
                     got |-> DecryptAES(ciphertext),
                     plain |-> IF storeHist.op = "encrypt"
                                    /\ storeHist.got = ciphertext
                               THEN <<storeHist.arg>> ELSE <<>>]
    /\ UNCHANGED <<memoryTickets, slots, cipherOk, strategy>>
    /\ UNCHANGED <<gridVars, evalVars, sortVars, appVars, localVars, editorVars>>

CryptoNext ==
    \/ \E text \in CryptoTexts : CryptoEncrypt(text)
    \/ \E c \in CryptoTexts \cup
                  (IF storeHist.op = "encrypt" THEN {storeHist.got} ELSE {}) :
          CryptoDecrypt(c)
    \/ CipherChange

SpecCrypto == CryptoInit /\ [][CryptoNext]_vars

\* MemoryStorage and one durable strategy side by side, each handed the
\* same calls: `strategy` names the durable one, its cipher and its slot
\* work, and the history holds what the last call returned on each.
TwinInit ==
    /\ GridIdle /\ EvalIdle /\ SortIdle /\ AppIdle /\ LocalIdle /\ EditorIdle
    /\ memoryTickets = <<>>
    /\ slots = [s \in Durable |-> NoItem]
    /\ cipherOk = TRUE
    /\ strategy \in Durable
    /\ storeHist = [op |-> "none"]

\* saveToStorage(tickets): what setItem writes to the slot.
SaveToStorage(list) == EncryptAES(JSONStringify(list))

\* The two strategies after a call that leaves memList in MemoryStorage's
\* array and writes durList to the durable strategy's slot.
TwinKeep(memList, durList) ==
    /\ memoryTickets' = memList
    /\ slots' = [slots EXCEPT ![strategy] = SaveToStorage(durList)]

TwinHist(op, id, got, twin) == [op |-> op, id |-> id, got |-> got, twin |-> twin]
TwinFrame ==
    /\ UNCHANGED <<cipherOk, strategy>>
    /\ UNCHANGED <<gridVars, evalVars, sortVars, appVars, localVars, editorVars>>

TwinSave(ticket) ==
    /\ Len(memoryTickets) < MaxStored
    /\ TwinKeep(Unshift(memoryTickets, ticket),
                Unshift(GetTickets(strategy), ticket))
    /\ storeHist' = TwinHist("save", ticket.id, <<>>, <<>>)
    /\ TwinFrame

TwinDelete(ticketId) ==
    /\ TwinKeep(WithoutId(memoryTickets, ticketId),
                WithoutId(GetTickets(strategy), ticketId))
    /\ storeHist' = TwinHist("delete", ticketId, <<>>, <<>>)
    /\ TwinFrame

TwinUpdate(ticketId, updatedData) ==
    /\ LET index == FindIndex(memoryTickets, ticketId)
       IN  memoryTickets' =
               IF index # -1
               THEN [memoryTickets EXCEPT
                        ![index] = Spread(memoryTickets[index], updatedData)]
               ELSE memoryTickets
    /\ LET list == GetTickets(strategy)
           index == FindIndex(list, ticketId)
       IN  slots' =
               IF index # -1
               THEN [slots EXCEPT ![strategy] = SaveToStorage(
                        [list EXCEPT ![index] = Spread(list[index], updatedData)])]
               ELSE slots
    /\ storeHist' = TwinHist("update", ticketId, <<>>, <<>>)
    /\ TwinFrame

TwinGet(ticketId) ==
    /\ storeHist' = TwinHist("get", ticketId, GetTicket("memory", ticketId),
                             GetTicket(strategy, ticketId))
    /\ UNCHANGED <<memoryTickets, slots>>
    /\ TwinFrame

TwinList ==
    /\ storeHist' = TwinHist("list", <<>>, GetTickets("memory"),
                             GetTickets(strategy))
    /\ UNCHANGED <<memoryTickets, slots>>
    /\ TwinFrame

TwinNext ==
    \/ \E t \in StoreTickets : TwinSave(t)
    \/ \E i \in StoreIds : TwinDelete(i)
    \/ \E i \in StoreIds, u \in UpdatedDatas : TwinUpdate(i, u)
    \/ \E i \in StoreIds : TwinGet(i)
    \/ TwinList

SpecTwin == TwinInit /\ [][TwinNext]_vars

\* ------------------------------------------------------------ the ticket App

\* Most tickets the App holds over its three storages.
MaxAppTickets == 3

\* App.constructor: the sorters the App starts with.
DefaultSorters == <<[column |-> "dateCreated", order |-> "desc"]>>

\* createTicketFromForm: the id drawn from Date.now() and Math.random(),
\* the subject of the form, dateCreated from the clock.
CreateTicketFromForm(id, subject, now) ==
    [id |-> id, subject |-> subject, dateCreated |-> now]

\* What getTickets() of strategy s returns once s keeps list.
AfterKeep(s, list) ==
    IF s = "memory" THEN list
    ELSE PersistentGetTickets(EncryptAES(JSONStringify(list)))

\* loadTickets in a handler that leaves the rule sets alone, when
\* getTickets() of the selected storage returns stored.
LoadTickets(stored) ==
    rendered' = ProcessTickets(stored, currentFilters, currentSorters)

StoredCount == Len(memoryTickets) + Len(GetTickets("session")) + Len(GetTickets("local"))

\* new App(): the storage named by the URL, or memory; init() loads the
\* tickets of storages that are still empty.
AppInit ==
    /\ GridIdle /\ EvalIdle /\ LocalIdle /\ EditorIdle
    /\ chain = <<>> /\ sorted = [done |-> FALSE, out |-> <<>>]
    /\ sortImpl \in SortImpls
    /\ memoryTickets = <<>>
    /\ slots = [s \in Durable |-> NoItem]
    /\ cipherOk \in BOOLEAN
    /\ strategy = "memory" /\ storeHist = [op |-> "none"]
    /\ currentStorage \in Strategies
    /\ currentFilters = <<>>
    /\ currentSorters = DefaultSorters
    /\ rendered = <<>>

\* Submit of a valid ticket form; when setItem throws the handler ends
\* there, before loadTickets.
HandleFormSubmit(id, subject, now, writeOk) ==
    /\ StoredCount < MaxAppTickets
    /\ SaveTicket(currentStorage, CreateTicketFromForm(id, subject, now), writeOk)
    /\ UNCHANGED <<currentStorage, currentFilters, currentSorters>>
    /\ UNCHANGED <<cipherOk, strategy, storeHist>>
    /\ UNCHANGED <<gridVars, evalVars, sortVars, localVars, editorVars>>
    /\ IF WriteThrows(currentStorage, writeOk) THEN UNCHANGED rendered
       ELSE LoadTickets(AfterKeep(currentStorage,
                Unshift(GetTickets(currentStorage),
                        CreateTicketFromForm(id, subject, now))))

\* Change of the storage select.
SwitchStorage(newType) ==
    /\ currentStorage # newType
    /\ currentStorage' = newType
    /\ UNCHANGED <<currentFilters, currentSorters>>
    /\ UNCHANGED <<memoryTickets, slots>>
    /\ UNCHANGED <<cipherOk, strategy, storeHist>>
    /\ UNCHANGED <<gridVars, evalVars, sortVars, localVars, editorVars>>
    /\ LoadTickets(GetTickets(newType))

\* Click on the refresh button.
RefreshTickets ==
    /\ UNCHANGED <<currentStorage, currentFilters, currentSorters>>
    /\ UNCHANGED <<memoryTickets, slots>>
    /\ UNCHANGED <<cipherOk, strategy, storeHist>>
    /\ UNCHANGED <<gridVars, evalVars, sortVars, localVars, editorVars>>
    /\ LoadTickets(GetTickets(currentStorage))

AppNext ==
    \/ \E id \in StoreIds, now \in SortDates, w \in WriteOutcomes(currentStorage) :
          HandleFormSubmit(id, <<"a">>, now, w)
    \/ \E t \in Strategies : SwitchStorage(t)
    \/ RefreshTickets

SpecApp == AppInit /\ [][AppNext]_vars

\* C14: with the default sorters and no filters the list shown after any
\* sequence of saves holds the tickets of the selected storage, newest
\* first: dateCreated never increases down the list.
C14_NewestFirst ==
    (currentFilters = <<>> /\ currentSorters = DefaultSorters) =>
        /\ Len(rendered) = Len(GetTickets(currentStorage))
        /\ \A t \in {rendered[i] : i \in 1..Len(rendered)} :
              \E k \in 1..Len(GetTickets(currentStorage)) :
                  GetTickets(currentStorage)[k] = t
        /\ \A i, j \in 1..Len(rendered) :
              i < j => ~StrLess(rendered[i].dateCreated, rendered[j].dateCreated)

\* C14 witness: A was saved at time 1, then B at time 2, and the list
\* shows B, A.
C14_Witness ==
    /\ currentFilters = <<>> /\ currentSorters = DefaultSorters
    /\ Len(rendered) = 2
    /\ rendered[1].id # rendered[2].id
    /\ rendered[1].dateCreated = <<"2">> /\ rendered[2].dateCreated = <<"1">>
    /\ GetTickets(currentStorage) = rendered

\* ------------------------------------------- local data provider (paging)

MaxLocalRecs == 4
MaxPageSize == 2
MaxPage == 3

\* processData of the table that pages its own data: the same filter step
\* and sort step as processTickets.
ProcessData(items, ruleSet, sortRules) ==
    ProcessTickets(items, ruleSet, sortRules)

\* A faulty variant of Slice: the start is ignored.
Slice_FromFront(arr, start, end) == SubSeq(arr, 1, Min(end - start, Len(arr)))

\* Array.prototype.slice(start, end) for 0 <= start <= end: zero-based,
\* end excluded, both clamped to the length.
Slice(arr, start, end) == SubSeq(arr, Min(start, Len(arr)) + 1, Min(end, Len(arr)))

\* fetchData without serverSide, on the table l: totalCount, the data
\* displayed and totalPages; shown records what each page displayed since
\* data and rule sets last changed.
FetchData(l) ==
    LET fullProcessed == ProcessData(l.data, l.filters, l.sorters)
        start == (l.currentPage - 1) * l.pageSize
        displayed == IF l.enabled
                     THEN Slice(fullProcessed, start, start + l.pageSize)
                     ELSE fullProcessed
    IN  [l EXCEPT !.totalCount = Len(fullProcessed),
                  !.displayedData = displayed,
                  !.totalPages = IF l.enabled
                                 THEN Ceil(Len(fullProcessed), l.pageSize)
                                 ELSE 1,
                  !.shown = {e \in l.shown : e[1] # l.currentPage}
                                \cup {<<l.currentPage, displayed>>}]

\* createDynamicTable: settings from the config, a fresh state, and the
\* first refresh().
CreateDynamicTable(items, ruleSet, sortRules, enabled, size, startPage) ==
    FetchData([done |-> TRUE, data |-> items, filters |-> ruleSet,
               sorters |-> sortRules, enabled |-> enabled,
               pageSize |-> size, currentPage |-> startPage,
               displayedData |-> <<>>, totalCount |-> 0, totalPages |-> 1,
               shown |-> {}])

\* Sample data, rule sets and pagination settings of a table.
LocalSubjects == { <<"a">>, <<"b">> }
LocalCollections ==
    UNION { { [i \in 1..n |-> [id |-> <<TicketIds[i]>>, subject |-> subjects[i]]] :
                subjects \in [1..n -> LocalSubjects] } : n \in 0..MaxLocalRecs }
LocalFilters ==
    { <<>>, <<[column |-> "subject", relation |-> "contains", value |-> <<"a">>]>> }
LocalSorters ==
    { <<>>, <<[column |-> "subject", order |-> "asc"]>>,
      <<[column |-> "subject", order |-> "desc"]>> }

PageInit ==
    /\ GridIdle /\ EvalIdle /\ StoreIdle /\ AppIdle /\ EditorIdle
    /\ chain = <<>> /\ sorted = [done |-> FALSE, out |-> <<>>]
    /\ sortImpl \in SortImpls
    /\ \E items \in LocalCollections, ruleSet \in LocalFilters,
          sortRules \in LocalSorters, enabled \in BOOLEAN,
          size \in 1..MaxPageSize, startPage \in 1..MaxPage :
          local = CreateDynamicTable(items, ruleSet, sortRules, enabled,
                                     size, startPage)

\* Click on a pagination button that asks for page.
PageClick(page) ==
    /\ local.enabled
    /\ ~(page < 1 \/ page > local.totalPages \/ page = local.currentPage)
    /\ local' = FetchData([local EXCEPT !.currentPage = page])
    /\ UNCHANGED <<gridVars, evalVars, sortVars, storeVars, appVars, editorVars>>

\* refresh() of the table.
RefreshTable ==
    /\ local' = FetchData(local)
    /\ UNCHANGED <<gridVars, evalVars, sortVars, storeVars, appVars, editorVars>>

\* updateData, updateFilters, updateSorters: the new value, page 1, refresh.
UpdateData(newData) ==
    /\ local' = FetchData([local EXCEPT !.data = newData, !.currentPage = 1,
                                        !.shown = {}])
    /\ UNCHANGED <<gridVars, evalVars, sortVars, storeVars, appVars, editorVars>>
UpdateFilters(newFilters) ==
    /\ local' = FetchData([local EXCEPT !.filters = newFilters,
                                        !.currentPage = 1, !.shown = {}])
    /\ UNCHANGED <<gridVars, evalVars, sortVars, storeVars, appVars, editorVars>>
UpdateSorters(newSorters) ==
    /\ local' = FetchData([local EXCEPT !.sorters = newSorters,
                                        !.currentPage = 1, !.shown = {}])
    /\ UNCHANGED <<gridVars, evalVars, sortVars, storeVars, appVars, editorVars>>

PageNext ==
    \/ \E page \in 0..(MaxLocalRecs + 1) : PageClick(page)
    \/ RefreshTable
    \/ \E d \in LocalCollections : UpdateData(d)
    \/ \E f \in LocalFilters : UpdateFilters(f)
    \/ \E c \in LocalSorters : UpdateSorters(c)

SpecPage == PageInit /\ [][PageNext]_vars

\* The page that was displayed for page number p, and pages 1..p one
\* after the other.
PageShown(p) == (CHOOSE e \in local.shown : e[1] = p)[2]
RECURSIVE PagesUpTo(_)
PagesUpTo(p) == IF p = 0 THEN <<>> ELSE PagesUpTo(p - 1) \o PageShown(p)

\* C15: with pagination on, the data displayed for page p of size s is the
\* slice of the filtered and sorted collection that starts at (p-1)*s and
\* has min(s, max(0, totalCount - (p-1)*s)) records; totalCount is the
\* number of records that pass the filters; and once every page
\* 1..totalPages has been displayed for the same data and rule sets, the
\* pages one after the other are the filtered and sorted collection, each
\* record once.
C15_PagesAreSlices ==
    (local.done /\ local.enabled) =>
        LET full == ProcessData(local.data, local.filters, local.sorters)
            start == (local.currentPage - 1) * local.pageSize
            n == Min(local.pageSize, Max(0, local.totalCount - start))
            passing == {i \in 1..Len(local.data) :
                            EveryRule(local.data[i], local.filters)}
            all == PagesUpTo(local.totalPages)
        IN  /\ local.totalCount = Cardinality(passing)
            /\ Len(local.displayedData) = n
            /\ \A k \in 1..n : local.displayedData[k] = full[start + k]
            /\ (\A p \in 1..local.totalPages : \E e \in local.shown : e[1] = p)
                  => /\ all = full
                     /\ \A i \in passing :
                           Cardinality({k \in 1..Len(all) : all[k] = local.data[i]}) = 1

\* C15 witness: page size 2, four records of which three pass the filter;
\* page 1 showed two records and page 2, now displayed, shows one.
C15_Witness ==
    /\ local.done /\ local.enabled
    /\ local.pageSize = 2 /\ Len(local.data) = 4 /\ Len(local.filters) = 1
    /\ local.totalCount = 3 /\ local.totalPages = 2
    /\ local.currentPage = 2 /\ Len(local.displayedData) = 1
    /\ \E e \in local.shown : e[1] = 1 /\ Len(e[2]) = 2

\* ------------------------------------------------------ rule editor modals

\* Rows a modal may hold at once.
MaxRows == 2

\* String.prototype.trim; the space stands for every white space character.
RECURSIVE TrimStart(_)
TrimStart(str) ==
    IF str # <<>> /\ Head(str) = " " THEN TrimStart(Tail(str)) ELSE str
Trim(str) == Reverse(TrimStart(Reverse(TrimStart(str))))

\* The value of a <select> built with the option equal to wanted marked as
\* selected: that option, or the first one when none is marked.
SelectValue(options, wanted) ==
    IF \E k \in 1..Len(options) : options[k] = wanted THEN wanted
    ELSE options[1]
\* The same for a rule without the property: no option is marked.
SelectOf(options, rule, property) ==
    IF property \in DOMAIN rule THEN SelectValue(options, rule[property])
    ELSE options[1]

\* escapeHtml of the ticket service: the five characters become
\* entities, here one symbol each; the empty string for a falsy text.
EscapeChar(c) ==
    CASE c = "&" -> "&amp;" [] c = "<" -> "&lt;" [] c = ">" -> "&gt;"
      [] c = "\"" -> "&quot;" [] c = "'" -> "&#039;" [] OTHER -> c
EscapeHtml(str) == [k \in 1..Len(str) |-> EscapeChar(str[k])]

\* The value of an <input> built from markup that has str between the
\* double quotes of the value attribute: the text up to the first double
\* quote, with the entities decoded.
DecodeChar(c) ==
    CASE c = "&amp;" -> "&" [] c = "&lt;" -> "<" [] c = "&gt;" -> ">"
      [] c = "&quot;" -> "\"" [] c = "&#039;" -> "'" [] OTHER -> c
RECURSIVE HtmlAttribute(_)
HtmlAttribute(str) ==
    IF str = <<>> \/ Head(str) = "\"" THEN <<>>
    ELSE <<DecodeChar(Head(str))>> \o HtmlAttribute(Tail(str))

\* A call without an argument: the default parameter {} of rowBuilderFn.
NoRule == <<>>

\* settings.columns of the grid engine, in order; all filterable and
\* sortable.
GridColumns == <<"id", "subject">>
\* The operators of the filter modal's rowBuilderFn.
GridOperators == <<"contains", "eq", "ne", "gt", "lt">>

\* rowBuilderFn of the filter modal: the controls of one row.
GridFilterRow(filter) ==
    [column |-> SelectOf(GridColumns, filter, "column"),
     operator |-> SelectOf(GridOperators, filter, "operator"),
     value |-> IF "value" \in DOMAIN filter
               THEN HtmlAttribute(filter.value) ELSE <<>>]

\* A faulty variant of GridFilterReader: blank rows are read too.
GridFilterReader_KeepBlank(rows) == rows

\* stateReaderFn of the filter modal: the rows whose value is not blank.
GridFilterReader(rows) == SelectSeq(rows, LAMBDA row : Trim(row.value) # <<>>)

\* rowBuilderFn and stateReaderFn of the sort modal.
GridSorterRow(sorter) ==
    [column |-> SelectOf(GridColumns, sorter, "column"),
     order |-> SelectOf(<<"asc", "desc">>, sorter, "order")]
GridSorterReader(rows) == rows

\* setupModal's options for the two modals of the grid engine.
GridRow(key, rule) ==
    IF key = "filter" THEN GridFilterRow(rule) ELSE GridSorterRow(rule)
GridReader(key, rows) ==
    IF key = "filter" THEN GridFilterReader(rows) ELSE GridSorterReader(rows)
\* state[stateKey].
GridState(key) == IF key = "filter" THEN filters ELSE sorters

\* What a user can turn the controls of a row into; a new row already has
\* the empty value.
FilterValues == { <<" ">>, <<"a">> }
GridFilterEdits ==
    { [column |-> "subject", operator |-> "eq", value |-> v] : v \in FilterValues }
GridSorterEdits == { [column |-> "subject", order |-> "desc"] }
GridEdits(key) == IF key = "filter" THEN GridFilterEdits ELSE GridSorterEdits

ModalKeys == {"filter", "sort"}

\* The modal named key after its handler op ran, and the handler's name.
WithModal(op, key, visible, rows) ==
    editor' = [editor EXCEPT !.last = [op |-> op, key |-> key],
                             ![key] = [visible |-> visible, rows |-> rows]]

\* A faulty variant of GridUntouched: the engine's filter set follows the
\* rows of the filter modal while they are edited.
GridUntouched_LiveRules ==
    /\ filters' = GridFilterReader(editor'.filter.rows)
    /\ UNCHANGED <<data, totalCount, totalPages, currentPage, sorters,
                   selectedRows, pageSize, paginationEnabled, isLoading, pager,
                   inflight, lastRequest, hist, refreshed>>
    /\ UNCHANGED <<evalVars, sortVars, storeVars, appVars, localVars>>

\* Handlers of a modal that touch neither the engine's state nor its DOM.
GridUntouched ==
    /\ UNCHANGED gridVars
    /\ UNCHANGED <<evalVars, sortVars, storeVars, appVars, localVars>>

\* Click on the trigger of a modal: the rows are rebuilt from the
\* committed rules, one empty row when there is none.
ModalOpen(key) ==
    /\ editor.host = "grid"
    /\ LET currentState == GridState(key)
       IN  WithModal("open", key, TRUE,
               IF Len(currentState) = 0 THEN <<GridRow(key, NoRule)>>
               ELSE [k \in 1..Len(currentState) |-> GridRow(key, currentState[k])])
    /\ GridUntouched

\* Click on the add button of a visible modal.
ModalAddRow(key) ==
    /\ editor.host = "grid" /\ editor[key].visible
    /\ Len(editor[key].rows) < MaxRows
    /\ WithModal("addRow", key, TRUE,
           Append(editor[key].rows, GridRow(key, NoRule)))
    /\ GridUntouched

\* Click on the remove button of row i.
ModalRemoveRow(key, i) ==
    /\ editor.host = "grid" /\ editor[key].visible
    /\ i \in 1..Len(editor[key].rows)
    /\ WithModal("removeRow", key, TRUE,
           [k \in 1..(Len(editor[key].rows) - 1) |->
               editor[key].rows[IF k < i THEN k ELSE k + 1]])
    /\ GridUntouched

\* The user changes the controls of row i.
ModalEditRow(key, i, row) ==
    /\ editor.host = "grid" /\ editor[key].visible
    /\ i \in 1..Len(editor[key].rows)
    /\ editor[key].rows[i] # row
    /\ WithModal("editRow", key, TRUE, [editor[key].rows EXCEPT ![i] = row])
    /\ GridUntouched

\* Click on .close-modal: the modal is hidden, its rows stay in the DOM.
ModalClose(key) ==
    /\ editor.host = "grid" /\ editor[key].visible
    /\ WithModal("close", key, FALSE, editor[key].rows)
    /\ GridUntouched

\* The reset and submit handlers: state[stateKey] is replaced, the page is
\* set to 1, the modal is hidden, and refresh() runs up to its await.
ModalCommit(op, key, newRules) ==
    /\ editor.host = "grid" /\ editor[key].visible
    /\ filters' = IF key = "filter" THEN newRules ELSE filters
    /\ sorters' = IF key = "sort" THEN newRules ELSE sorters
    /\ currentPage' = PageAfterCommit(currentPage)
    /\ WithModal(op, key, FALSE, editor[key].rows)
    /\ IssueFetch(currentPage', filters', sorters')
    /\ UNCHANGED <<data, totalCount, totalPages, selectedRows, pageSize,
                   paginationEnabled, pager, refreshed>>
    /\ UNCHANGED <<evalVars, sortVars, storeVars, appVars, localVars>>
ModalReset(key) ==
    /\ ModalCommit("reset", key, <<>>)
    /\ hist' = Hist("reset", currentPage, NoResponse, FALSE)
ModalSubmit(key) ==
    /\ ModalCommit("submit", key, GridReader(key, editor[key].rows))
    /\ hist' = Hist("submit", currentPage, NoResponse, FALSE)

\* What the dataSource of the page answers: its one record.
EditorResponses ==
    { r \in Responses :
        r.kind = "object" /\ r.dataIsArray /\ r.hasCount
            /\ r.data # <<>> /\ r.totalCount = Len(r.data) }

GridModalNext ==
    \/ \E key \in ModalKeys : ModalOpen(key)
    \/ \E key \in ModalKeys : ModalAddRow(key)
    \/ \E key \in ModalKeys, i \in 1..MaxRows : ModalRemoveRow(key, i)
    \/ \E key \in ModalKeys, i \in 1..MaxRows :
          \E row \in GridEdits(key) : ModalEditRow(key, i, row)
    \/ \E key \in ModalKeys : ModalClose(key)
    \/ \E key \in ModalKeys : ModalReset(key)
    \/ \E key \in ModalKeys : ModalSubmit(key)
    \/ editor.host = "grid" /\ \E i \in 1..MaxInFlight, resp \in EditorResponses :
          Complete(i, resp)

\* The options of the App's sort and filter rows, in order.
AppSortColumns == <<"id", "fullName", "dateCreated">>
AppFilterColumns == <<"id", "fullName", "email", "subject">>
AppRelations == <<"contains", "equals">>

\* addSorterRow(sorter) and addFilterRow(filter): the controls of the row.
AddSorterRow(sorter) ==
    [column |-> SelectValue(AppSortColumns, sorter.column),
     order |-> SelectValue(<<"asc", "desc">>, sorter.order)]
AddFilterRow(filter) ==
    [column |-> SelectValue(AppFilterColumns, filter.column),
     relation |-> SelectValue(AppRelations, filter.relation),
     value |-> HtmlAttribute(EscapeHtml(filter.value))]
\* Their default parameters.
DefaultSorterRow == [column |-> "dateCreated", order |-> "desc"]
DefaultFilterRow == [column |-> "", relation |-> "", value |-> <<>>]

\* renderSorterRows and renderFilterRows.
RenderSorterRows(ruleSet) ==
    IF Len(ruleSet) = 0 THEN <<AddSorterRow(DefaultSorterRow)>>
    ELSE [k \in 1..Len(ruleSet) |-> AddSorterRow(ruleSet[k])]
RenderFilterRows(ruleSet) ==
    IF Len(ruleSet) = 0 THEN <<AddFilterRow(DefaultFilterRow)>>
    ELSE [k \in 1..Len(ruleSet) |-> AddFilterRow(ruleSet[k])]

\* The rule sets applySorters and applyFilters read from the rows.
AppSorterReader(rows) == rows
AppFilterReader(rows) == SelectSeq(rows, LAMBDA row : Trim(row.value) # <<>>)

\* What a user can turn the controls of a row into.
AppSorterEdits == { [column |-> "id", order |-> "asc"] }
AppFilterEdits ==
    { [column |-> "subject", relation |-> "equals", value |-> v] : v \in FilterValues }
AppEdits(key) == IF key = "filter" THEN AppFilterEdits ELSE AppSorterEdits

\* Handlers that leave the App's rule sets, storage and list alone.
AppUntouched ==
    /\ UNCHANGED <<currentStorage, currentFilters, currentSorters, rendered>>
    /\ UNCHANGED <<gridVars, evalVars, sortVars, storeVars, localVars>>

\* openSortModal and openFilterModal.
OpenSortModal ==
    /\ editor.host = "app"
    /\ WithModal("open", "sort", TRUE, RenderSorterRows(currentSorters))
    /\ AppUntouched
OpenFilterModal ==
    /\ editor.host = "app"
    /\ WithModal("open", "filter", TRUE, RenderFilterRows(currentFilters))
    /\ AppUntouched

\* Click on the add button of a visible modal.
AppAddRow(key) ==
    /\ editor.host = "app" /\ editor[key].visible
    /\ Len(editor[key].rows) < MaxRows
    /\ WithModal("addRow", key, TRUE,
           Append(editor[key].rows,
                  IF key = "filter" THEN AddFilterRow(DefaultFilterRow)
                  ELSE AddSorterRow(DefaultSorterRow)))
    /\ AppUntouched

\* Click on the delete button of row i.
AppRemoveRow(key, i) ==
    /\ editor.host = "app" /\ editor[key].visible
    /\ i \in 1..Len(editor[key].rows)
    /\ WithModal("removeRow", key, TRUE,
           [k \in 1..(Len(editor[key].rows) - 1) |->
               editor[key].rows[IF k < i THEN k ELSE k + 1]])
    /\ AppUntouched

\* The user changes the controls of row i.
AppEditRow(key, i, row) ==
    /\ editor.host = "app" /\ editor[key].visible
    /\ i \in 1..Len(editor[key].rows)
    /\ editor[key].rows[i] # row
    /\ WithModal("editRow", key, TRUE, [editor[key].rows EXCEPT ![i] = row])
    /\ AppUntouched

\* Click on a close or cancel button, or beside the modal: hideModal.
HideModal(key) ==
    /\ editor.host = "app" /\ editor[key].visible
    /\ WithModal("close", key, FALSE, editor[key].rows)
    /\ AppUntouched

\* resetSorters and resetFilters.
AppResetSorters ==
    /\ editor.host = "app" /\ editor.sort.visible
    /\ currentSorters' = DefaultSorters
    /\ WithModal("reset", "sort", TRUE, RenderSorterRows(currentSorters'))
    /\ UNCHANGED <<currentStorage, currentFilters, rendered>>
    /\ UNCHANGED <<gridVars, evalVars, sortVars, storeVars, localVars>>
AppResetFilters ==
    /\ editor.host = "app" /\ editor.filter.visible
    /\ currentFilters' = <<>>
    /\ WithModal("reset", "filter", TRUE, RenderFilterRows(currentFilters'))
    /\ UNCHANGED <<currentStorage, currentSorters, rendered>>
    /\ UNCHANGED <<gridVars, evalVars, sortVars, storeVars, localVars>>

\* applySorters and applyFilters.
ApplySorters ==
    /\ editor.host = "app" /\ editor.sort.visible
    /\ currentSorters' = AppSorterReader(editor.sort.rows)
    /\ rendered' = ProcessTickets(GetTickets(currentStorage), currentFilters,
                                  AppSorterReader(editor.sort.rows))
    /\ WithModal("submit", "sort", FALSE, editor.sort.rows)
    /\ UNCHANGED <<currentStorage, currentFilters>>
    /\ UNCHANGED <<gridVars, evalVars, sortVars, storeVars, localVars>>
ApplyFilters ==
    /\ editor.host = "app" /\ editor.filter.visible
    /\ currentFilters' = AppFilterReader(editor.filter.rows)
    /\ rendered' = ProcessTickets(GetTickets(currentStorage),
                                  AppFilterReader(editor.filter.rows),
                                  currentSorters)
    /\ WithModal("submit", "filter", FALSE, editor.filter.rows)
    /\ UNCHANGED <<currentStorage, currentSorters>>
    /\ UNCHANGED <<gridVars, evalVars, sortVars, storeVars, localVars>>

AppModalNext ==
    \/ OpenSortModal
    \/ OpenFilterModal
    \/ \E key \in ModalKeys : AppAddRow(key)
    \/ \E key \in ModalKeys, i \in 1..MaxRows : AppRemoveRow(key, i)
    \/ \E key \in ModalKeys, i \in 1..MaxRows :
          \E row \in AppEdits(key) : AppEditRow(key, i, row)
    \/ \E key \in ModalKeys : HideModal(key)
    \/ AppResetSorters
    \/ AppResetFilters
    \/ ApplySorters
    \/ ApplyFilters

\* The tickets the App's memory storage holds when the editing starts:
\* none, or ticket A and then ticket B saved through the form.
EditorTickets ==
    { <<>>,
      <<[id |-> <<"B">>, subject |-> <<"b">>, dateCreated |-> <<"2">>],
        [id |-> <<"A">>, subject |-> <<"a">>, dateCreated |-> <<"1">>]>> }

\* A page with the grid engine as createDynamicTable leaves it, or with the
\* App after its tickets were loaded.
EditorInit ==
    /\ EvalIdle /\ SortIdle /\ LocalIdle
    /\ slots = [s \in Durable |-> NoItem]
    /\ cipherOk = TRUE /\ strategy = "memory" /\ storeHist = [op |-> "none"]
    /\ currentStorage = "memory" /\ currentFilters = <<>>
    /\ \/ /\ editor = [host |-> "grid", last |-> [op |-> "none", key |-> "none"],
                       filter |-> NoModal, sort |-> NoModal]
          /\ data = <<>> /\ totalCount = 0 /\ totalPages = 1 /\ currentPage = 1
          /\ filters = <<>> /\ sorters = <<>> /\ selectedRows = {}
          /\ pageSize \in PageSizes /\ paginationEnabled = TRUE
          /\ isLoading = TRUE
          /\ pager = [present |-> FALSE, prevDisabled |-> TRUE,
                      nextDisabled |-> TRUE]
          /\ inflight = <<[overtaken |-> FALSE]>>
          /\ lastRequest = PageRequest(1, <<>>, <<>>)
          /\ hist = Hist("create", 0, NoResponse, FALSE)
          /\ refreshed = "pending"
          /\ memoryTickets = <<>> /\ currentSorters = <<>> /\ rendered = <<>>
       \/ /\ editor = [host |-> "app", last |-> [op |-> "none", key |-> "none"],
                       filter |-> NoModal, sort |-> NoModal]
          /\ GridIdle
          /\ memoryTickets \in EditorTickets
          /\ currentSorters = DefaultSorters
          /\ rendered = ProcessTickets(memoryTickets, <<>>, DefaultSorters)

EditorNext ==
    \/ GridModalNext
    \/ AppModalNext

SpecEditor == EditorInit /\ [][EditorNext]_vars

\* ------------------------------------------ grid engine over a data provider

\* The collection of n records the provider pages over.
Served(n) == [k \in 1..n |-> k]

\* The provider's answer to a page request over its collection: the records
\* in the order the request's sorters ask for (the newest first under a sort
\* rule, as stored without one), the slice of the requested page, and the
\* size of the whole collection.
DataSource(request, collection) ==
    LET ordered == IF request.sorters = <<>> THEN collection
                   ELSE Reverse(collection)
        start == (request.page - 1) * request.pageSize
    IN  [kind |-> "object", dataIsArray |-> TRUE,
         data |-> Slice(ordered, start, start + request.pageSize),
         hasCount |-> TRUE, totalCount |-> Len(collection)]

\* A page with the grid engine as createDynamicTable leaves it, its first
\* fetch awaiting the provider.
ServedInit ==
    /\ data = <<>> /\ totalCount = 0 /\ totalPages = 1 /\ currentPage = 1
    /\ filters = <<>> /\ sorters = <<>> /\ selectedRows = {}
    /\ pageSize \in PageSizes /\ paginationEnabled = TRUE
    /\ isLoading = TRUE
    /\ pager = [present |-> FALSE, prevDisabled |-> TRUE, nextDisabled |-> TRUE]
    /\ inflight = <<[overtaken |-> FALSE]>>
    /\ lastRequest = PageRequest(1, <<>>, <<>>)
    /\ hist = Hist("create", 0, NoResponse, FALSE)
    /\ refreshed = "pending"
    /\ \E n \in 0..MaxCount : records = Served(n)
    /\ rules = <<>> /\ result = [done |-> FALSE, out |-> <<>>]
    /\ ServicesIdle

\* No fetch is awaited: the triggers of the page fire one after the other.
Serialized == inflight = <<>>

\* The awaited dataSource call resolves with the provider's answer to the
\* request, or rejects.
ServedResolve ==
    /\ inflight # <<>>
    /\ Complete(1, DataSource(lastRequest, records))
ServedReject ==
    /\ inflight # <<>>
    /\ \E resp \in {r \in Responses : r.kind = "reject"} : Complete(1, resp)

\* Records are added to or removed from the provider's collection between
\* two fetches.
ServedChange(n) ==
    /\ inflight = <<>>
    /\ n # Len(records)
    /\ records' = Served(n)
    /\ UNCHANGED <<gridVars, rules, result, serviceVars>>

ServedNext ==
    \/ Serialized /\ ClickPrev
    \/ Serialized /\ ClickNext
    \/ Serialized /\ Refresh
    \/ Serialized /\ ResetSorters
    \/ Serialized /\ \E r \in GridSortSets : SubmitSorters(r)
    \/ ServedResolve
    \/ ServedReject
    \/ \E n \in 0..MaxCount : ServedChange(n)

SpecServed == ServedInit /\ [][ServedNext]_vars

\* ---------------------------------------------- queries and array identity

\* An array as the query code sees it: the array object, named by ref, and
\* the elements it holds. "store" is MemoryStorage's this.tickets,
\* "settings" is the settings.data of a table, "fresh" an array made
\* during the call.
ArrayObject(ref, items) == [ref |-> ref, items |-> items]

\* A faulty variant of SpreadArray: the array itself is handed on.
SpreadArray_Alias(arr) == arr

\* [...arr]: a new array with the same elements.
SpreadArray(arr) == ArrayObject("fresh", arr.items)
\* arr.filter(...) with the rules of ruleSet: a new array.
FilterArray(arr, ruleSet) == ArrayObject("fresh", ArrayFilter(arr.items, ruleSet))
\* arr.sort(...) with the comparator of sortRules: the same array, sorted
\* in place.
SortInPlace(arr, sortRules) == ArrayObject(arr.ref, SortStep(arr.items, sortRules))

\* getTickets() of strategy s: MemoryStorage spreads this.tickets,
\* PersistentStorage returns what JSON.parse built.
GetTicketsArray(s) ==
    IF s = "memory" THEN SpreadArray(ArrayObject("store", memoryTickets))
    ELSE ArrayObject("fresh", PersistentGetTickets(slots[s]))

\* processTickets and processData: the array they sorted and return.
ProcessTicketsArray(tickets, ruleSet, sortRules) ==
    LET processedTickets == SpreadArray(tickets)
        filtered == IF Len(ruleSet) > 0
                    THEN FilterArray(processedTickets, ruleSet)
                    ELSE processedTickets
    IN  SortInPlace(filtered, sortRules)
\* The filter and sort steps inside TatuaTicketingSystem.loadTickets, on
\* the array getTickets() returned.
LoadTicketsArray(tickets, ruleSet, sortRules) ==
    LET filtered == IF Len(ruleSet) > 0 THEN FilterArray(tickets, ruleSet)
                    ELSE tickets
    IN  SortInPlace(filtered, sortRules)

\* What the array named ref, holding items before the call, holds once
\* the call has sorted the array it returns.
HeldAfter(ref, items, returned) ==
    IF returned.ref = ref THEN returned.items ELSE items

\* The tickets every strategy holds when the page is first queried: ticket
\* A was saved first, then B.
QueryTicketA == [id |-> <<"A">>, subject |-> <<"b">>, dateCreated |-> <<"1">>]
QueryTicketB == [id |-> <<"B">>, subject |-> <<"a">>, dateCreated |-> <<"2">>]
QueryCollection == <<QueryTicketA, QueryTicketB>>
QueryFilters ==
    { <<>>, <<[column |-> "subject", relation |-> "contains", value |-> <<"a">>]>> }
QuerySorters ==
    { <<[column |-> "dateCreated", order |-> "desc"]>>,
      <<[column |-> "subject", order |-> "asc"]>> }

\* The App with its three strategies, each holding a collection, one of
\* them selected, and a table that pages its own data.
QueryInit ==
    /\ GridIdle /\ EvalIdle /\ EditorIdle
    /\ chain = <<>> /\ sorted = [done |-> FALSE, out |-> <<>>]
    /\ sortImpl \in SortImpls
    /\ cipherOk = TRUE
    /\ memoryTickets = QueryCollection
    /\ slots = [s \in Durable |-> SaveToStorage(QueryCollection)]
    /\ strategy \in Strategies
    /\ storeHist = [op |-> "none"]
    /\ currentStorage = strategy
    /\ currentFilters \in QueryFilters
    /\ currentSorters \in QuerySorters
    /\ rendered = <<>>
    /\ local = CreateDynamicTable(QueryCollection, <<>>,
                    <<[column |-> "subject", order |-> "asc"]>>, TRUE, 1, 1)

QueryFrame ==
    /\ UNCHANGED <<slots, cipherOk, strategy>>
    /\ UNCHANGED <<currentStorage, currentFilters, currentSorters>>
    /\ UNCHANGED <<gridVars, evalVars, sortVars, editorVars>>

\* App.loadTickets: getTickets(), processTickets, renderTickets.
AppLoadTickets ==
    /\ LET returned == ProcessTicketsArray(GetTicketsArray(currentStorage),
                                           currentFilters, currentSorters)
       IN  /\ rendered' = returned.items
           /\ memoryTickets' = HeldAfter("store", memoryTickets, returned)
    /\ storeHist' = [op |-> "loadTickets"]
    /\ UNCHANGED local
    /\ QueryFrame

\* TatuaTicketingSystem.loadTickets: getTickets(), filter, sort, render.
MainLoadTickets ==
    /\ LET returned == LoadTicketsArray(GetTicketsArray(currentStorage),
                                        currentFilters, currentSorters)
       IN  /\ rendered' = returned.items
           /\ memoryTickets' = HeldAfter("store", memoryTickets, returned)
    /\ storeHist' = [op |-> "mainLoadTickets"]
    /\ UNCHANGED local
    /\ QueryFrame

\* fetchData of the table over settings.data, on a page click or refresh.
QueryFetchData(page) ==
    /\ page \in 1..local.totalPages
    /\ LET returned == ProcessTicketsArray(ArrayObject("settings", local.data),
                                           local.filters, local.sorters)
       IN  local' = [FetchData([local EXCEPT !.currentPage = page])
                        EXCEPT !.data = HeldAfter("settings", local.data, returned)]
    /\ storeHist' = [op |-> "fetchData"]
    /\ UNCHANGED <<memoryTickets, rendered>>
    /\ QueryFrame

QueryNext ==
    \/ AppLoadTickets
    \/ MainLoadTickets
    \/ \E page \in 1..MaxPage : QueryFetchData(page)
    \/ StoreSave(QueryTicketB, TRUE)
    \/ StoreUpdate(<<"A">>, [subject |-> <<"a">>], TRUE)
    \/ \E i \in {<<"A">>, <<"B">>} : StoreDelete(i, TRUE)

SpecQuery == QueryInit /\ [][QueryNext]_vars

\* ------------------------------------------------------------------ reload

\* Most reloads of the page.
MaxReloads == 2

\* A faulty variant of NewMemoryStorage: the new instance finds the
\* tickets of the old one.
NewMemoryStorage_Keeps == memoryTickets

\* new MemoryStorage(): this.tickets = [].
NewMemoryStorage == <<>>

\* getStorageFromURL() || 'memory' at a reload: the storage parameter of
\* the URL is the one the constructor read before, or the one
\* switchStorage pushed last, so it names the storage that was selected.
GetStorageFromURL == currentStorage

\* The App some time after its start: rules have been applied, no ticket
\* has been saved yet.
ReloadInit ==
    /\ GridIdle /\ EvalIdle /\ LocalIdle /\ EditorIdle
    /\ chain = <<>> /\ sorted = [done |-> FALSE, out |-> <<>>]
    /\ sortImpl \in SortImpls
    /\ memoryTickets = <<>>
    /\ slots = [s \in Durable |-> NoItem]
    /\ cipherOk \in BOOLEAN
    /\ strategy = "memory"
    /\ storeHist = [op |-> "none", n |-> 0, lost |-> 0, hadRules |-> FALSE]
    /\ currentStorage \in Strategies
    /\ currentFilters \in QueryFilters
    /\ currentSorters \in QuerySorters
    /\ rendered = <<>>

\* A reload of the page: new App() builds the three strategies, reads the
\* storage from the URL, starts from no filters and the default sorters,
\* and init() loads the tickets. sessionStorage and localStorage are those
\* of the browsing context.
Reload ==
    /\ storeHist.n < MaxReloads
    /\ memoryTickets' = NewMemoryStorage
    /\ UNCHANGED slots
    /\ currentStorage' = GetStorageFromURL
    /\ currentFilters' = <<>>
    /\ currentSorters' = DefaultSorters
    /\ rendered' = ProcessTickets(
                       IF GetStorageFromURL = "memory" THEN NewMemoryStorage
                       ELSE GetTickets(GetStorageFromURL),
                       <<>>, DefaultSorters)
    /\ storeHist' = [op |-> "reload", n |-> storeHist.n + 1,
                     lost |-> Len(memoryTickets),
                     hadRules |-> (currentFilters # <<>>
                                   \/ currentSorters # DefaultSorters)]
    /\ UNCHANGED <<cipherOk, strategy>>
    /\ UNCHANGED <<gridVars, evalVars, sortVars, localVars, editorVars>>

ReloadNext ==
    \/ AppNext
    \/ Reload

SpecReload == ReloadInit /\ [][ReloadNext]_vars

\* ---------------------------------------------------------- storage claims

\* What a caller reads from field f of a record, and two records that read
\* the same in every field.
ReadField(rec, f) == IF f \in DOMAIN rec THEN rec[f] ELSE Undefined
SameRecord(a, b) ==
    \A f \in DOMAIN a \cup DOMAIN b : ReadField(a, f) = ReadField(b, f)
SameList(l, m) ==
    Len(l) = Len(m) /\ \A i \in 1..Len(l) : SameRecord(l[i], m[i])
IdsOf(list) == {list[i].id : i \in 1..Len(list)}

\* C16: after a saveTicket(r) that returned, getTicket(r.id) returns a
\* record equal to r, on each strategy and after any earlier calls.
C16_SaveThenGet ==
    (storeHist.op = "save" /\ ~storeHist.threw) =>
        LET got == GetTicket(strategy, storeHist.arg.id)
        IN  Len(got) = 1 /\ SameRecord(got[1], storeHist.arg)

\* C16 witness: a record saved on a durable strategy over an older record
\* with the same id and another subject.
C16_Witness ==
    /\ storeHist.op = "save" /\ ~storeHist.threw
    /\ strategy \in Durable
    /\ \E i \in 2..Len(GetTickets(strategy)) :
          /\ GetTickets(strategy)[i].id = storeHist.arg.id
          /\ ~SameRecord(GetTickets(strategy)[i], storeHist.arg)

\* The payloads C21 names: one that cannot be decrypted (no ciphertext
\* made with the key), and one whose content is not well-formed JSON.
CannotBeDecrypted(stored) == stored.kind \notin {"null", "cipher"}
NotWellFormedJSON(stored) ==
    \/ stored.kind \in {"empty", "garbage"}
    \/ stored.kind = "cipher" /\ stored.text.kind \in {"empty", "garbage"}

\* C21: list() on a durable strategy returns the empty collection, and
\* does not throw, when the slot is absent, holds a payload that cannot be
\* decrypted, or holds a payload that is not well-formed JSON.
C21_CorruptedSlotListsEmpty ==
    [][ (/\ storeHist'.op = "list" /\ strategy \in Durable
         /\ \/ slots[strategy] = NoItem
            \/ CannotBeDecrypted(slots[strategy])
            \/ NotWellFormedJSON(slots[strategy])) =>
           /\ ~storeHist'.threw
           /\ ~NotArray(strategy)
           /\ storeHist'.got = <<>> ]_vars

\* C24: decryptAES(encryptAES(x)) = x for every non-empty string x, also
\* when encryptAES failed open and returned x itself.
C24_DecryptEncryptRoundTrip ==
    (/\ storeHist.op = "decrypt" /\ storeHist.plain # <<>>
     /\ storeHist.plain[1].kind # "empty") =>
        storeHist.got = storeHist.plain[1]

\* C25: neither call throws; decryptAES returns its input unchanged when
\* the input is no ciphertext made with the key (garbage, a tampered
\* ciphertext, an unencrypted payload) and when the decryption is empty;
\* encryptAES returns the plaintext unchanged when it fails.
C25_FailOpen ==
    /\ storeHist.op \in {"encrypt", "decrypt"} => ~storeHist.threw
    /\ (storeHist.op = "encrypt" /\ storeHist.failed) =>
            storeHist.got = storeHist.arg
    /\ (/\ storeHist.op = "decrypt"
        /\ \/ storeHist.arg.kind # "cipher"
           \/ storeHist.arg.text.kind = "empty") =>
            storeHist.got = storeHist.arg

\* C22: no operation of a storage strategy throws to its caller, whatever
\* the slot holds and whether or not setItem accepts the write.
C22_NoOperationThrows ==
    storeHist.op \in {"list", "get", "save", "update", "delete"} =>
        ~storeHist.threw

\* What list() returns for the content of a slot once the cipher works.
ListWhenCipherWorks(stored) ==
    IF NotStored(stored) THEN <<>>
    ELSE LET bytes == CryptoJSDecrypt(stored)
             text == IF bytes.threw \/ bytes.text.kind = "empty" THEN stored
                     ELSE bytes.text
             parsed == JSONParse(text)
         IN  IF parsed.ok THEN parsed.val ELSE <<>>

\* C23: a save, update or delete on a durable strategy while the cipher
\* fails loses no ticket: every record that list() returned before the
\* operation with the cipher at work, other than the target of an update or
\* delete, is returned by list() afterwards with the cipher at work again.
C23_CipherFailureLosesNothing ==
    [][ (/\ storeHist'.op \in {"save", "update", "delete"}
         /\ strategy \in Durable /\ ~cipherOk) =>
           LET before == ListWhenCipherWorks(slots[strategy])
               after == ListWhenCipherWorks(slots'[strategy])
           IN  \A i \in 1..Len(before) :
                  (storeHist'.op = "save" \/ before[i].id # storeHist'.id) =>
                      \E k \in 1..Len(after) : after[k] = before[i] ]_vars

\* C17: no two records of getTickets() have the same id.
C17_IdsUnique ==
    \A i, j \in 1..Len(GetTickets(strategy)) :
        GetTickets(strategy)[i].id = GetTickets(strategy)[j].id => i = j

\* C18: getTickets() after a saveTicket(r) that returned is r followed by
\* the records of getTickets() before the call, in the same order; on a
\* durable strategy the slot holds the whole collection.
C18_SavePrepends ==
    [][ (storeHist'.op = "save" /\ ~storeHist'.threw) =>
           /\ SameList(GetTickets(strategy)',
                       <<storeHist'.arg>> \o GetTickets(strategy))
           /\ strategy \in Durable =>
                 /\ slots'[strategy] # NoItem
                 /\ SameList(PersistentGetTickets(slots[strategy])',
                             <<storeHist'.arg>> \o GetTickets(strategy))
      ]_vars

\* C18 witness: a save on a durable strategy that already held two records.
C18_Witness ==
    /\ storeHist.op = "save" /\ ~storeHist.threw
    /\ strategy \in Durable
    /\ Len(GetTickets(strategy)) = 3
    /\ SameRecord(GetTickets(strategy)[1], storeHist.arg)

\* C19: updateTicket and deleteTicket with an id that no stored record has
\* return without error and leave getTickets() unchanged.
C19_AbsentIdIsNoOp ==
    [][ (/\ storeHist'.op \in {"update", "delete"}
         /\ storeHist'.id \notin IdsOf(GetTickets(strategy))) =>
           /\ ~storeHist'.threw
           /\ GetTickets(strategy)' = GetTickets(strategy)
      ]_vars

\* C20: an updateTicket that returned, with an id some record has, changes
\* only the first record with that id: its fields named in the data take
\* the data's values, its other fields are kept, and every other record,
\* the length and the order are as before.
C20_UpdateMergesOne ==
    [][ (/\ storeHist'.op = "update" /\ ~storeHist'.threw
         /\ storeHist'.id \in IdsOf(GetTickets(strategy))) =>
           LET before == GetTickets(strategy)
               after == GetTickets(strategy)'
               index == CHOOSE i \in 1..Len(before) :
                           /\ before[i].id = storeHist'.id
                           /\ \A j \in 1..(i - 1) : before[j].id # storeHist'.id
               updatedData == storeHist'.arg
           IN  /\ Len(after) = Len(before)
               /\ \A i \in 1..Len(before) :
                     i # index => after[i] = before[i]
               /\ \A f \in DOMAIN updatedData :
                     ReadField(after[index], f) = updatedData[f]
               /\ \A f \in DOMAIN before[index] \ DOMAIN updatedData :
                     ReadField(after[index], f) = before[index][f]
               /\ \A f \in DOMAIN after[index] :
                     f \in DOMAIN before[index] \cup DOMAIN updatedData
      ]_vars

\* C20 witness: an update has changed the subject of the second of three
\* records on a durable strategy.
C20_Witness ==
    /\ storeHist.op = "update" /\ ~storeHist.threw
    /\ strategy \in Durable
    /\ Len(GetTickets(strategy)) = 3
    /\ GetTickets(strategy)[1].id # storeHist.id
    /\ GetTickets(strategy)[2].id = storeHist.id
    /\ storeHist.arg = [subject |-> <<"b">>]
    /\ GetTickets(strategy)[2].subject = <<"b">>

\* ------------------------------------------------------ rule editor claims

\* A text with a character that is not white space.
NonBlank(str) == \E k \in 1..Len(str) : str[k] # " "
\* The rows of a modal whose value is not blank, in row order.
RECURSIVE NonBlankRows(_)
NonBlankRows(rows) ==
    IF rows = <<>> THEN <<>>
    ELSE IF NonBlank(Head(rows).value)
         THEN <<Head(rows)>> \o NonBlankRows(Tail(rows))
         ELSE NonBlankRows(Tail(rows))
\* The submit handler of the filter modal has just run.
FilterSubmitted ==
    /\ editor.last = [op |-> "submit", key |-> "filter"]
    /\ editor.host = "grid" => hist.op = "submit"
\* The filter rules the page holds as committed.
CommittedFilters == IF editor.host = "grid" THEN filters ELSE currentFilters

\* C26: after a submit of the filter modal every committed filter rule has a
\* value that is not blank once trimmed, and the committed rules are the
\* rows with such a value, in row order: rows left blank are dropped.
C26_BlankRowsDropped ==
    FilterSubmitted =>
        /\ \A k \in 1..Len(CommittedFilters) :
               NonBlank(CommittedFilters[k].value)
        /\ CommittedFilters = NonBlankRows(editor.filter.rows)
\* A submit of the grid's filter modal with a row holding only white space
\* before a row holding a value.
C26_Witness ==
    /\ FilterSubmitted /\ editor.host = "grid"
    /\ Len(editor.filter.rows) = 2
    /\ editor.filter.rows[1].value = <<" ">>
    /\ editor.filter.rows[2].value = <<"a">>
    /\ Len(filters) = 1

\* The reset handler of the modal named key has just run.
ResetDone(key) ==
    /\ editor.last = [op |-> "reset", key |-> key]
    /\ editor.host = "grid" => hist.op = "reset"
\* The sort rules the page holds as committed.
CommittedSorters == IF editor.host = "grid" THEN sorters ELSE currentSorters
\* The view shows, or a fetch was issued for, the committed rule sets.
ViewRefreshed ==
    IF editor.host = "grid"
    THEN inflight # <<>> /\ lastRequest = PageRequest(1, filters, sorters)
    ELSE rendered = ProcessTickets(GetTickets(currentStorage), currentFilters,
                                   currentSorters)

\* C27: after a reset of the filter modal the committed filters are empty,
\* after a reset of the sort modal the committed sorters are the single rule
\* {dateCreated, desc}, and in both cases the view is refreshed from the
\* rule sets as reset.
C27_ResetCommitsDefaults ==
    /\ ResetDone("filter") => CommittedFilters = <<>> /\ ViewRefreshed
    /\ ResetDone("sort") =>
          /\ CommittedSorters = <<[column |-> "dateCreated", order |-> "desc"]>>
          /\ ViewRefreshed

\* The handlers of a modal other than submit and reset.
EditingHandlers == {"open", "addRow", "removeRow", "editRow", "close"}
\* What the page holds as committed and displays, and its fetches.
CommittedView ==
    <<filters, sorters, currentPage, data, totalCount, inflight, lastRequest,
      currentFilters, currentSorters, rendered>>

\* C28: a step of opening a modal, adding, removing or editing a row, or
\* closing the modal leaves the committed filters and sorters, the current
\* page and the displayed data as they were and issues no fetch; a step that
\* changes a committed rule set is a submit or a reset.
C28_EditingLeavesCommitted ==
    [][/\ (editor' # editor /\ editor'.last.op \in EditingHandlers) =>
              UNCHANGED CommittedView
       /\ (CommittedFilters' # CommittedFilters
               \/ CommittedSorters' # CommittedSorters) =>
              (editor' # editor /\ editor'.last.op \in {"submit", "reset"})]_vars
\* The grid's filter modal closed after a row was added and both rows were
\* given a value, with no filter committed.
C28_Witness ==
    /\ editor.host = "grid"
    /\ editor.last = [op |-> "close", key |-> "filter"]
    /\ Len(editor.filter.rows) = 2
    /\ \A k \in 1..2 : editor.filter.rows[k].value = <<"a">>
    /\ filters = <<>>

\* The relations the query evaluator restricts by.
EvaluatorRelations == {"equals", "contains", "startsWith", "endsWith"}

\* C30: after a submit of the grid's filter modal every committed filter rule
\* has the properties column, relation and value, and its relation is one
\* of equals, contains, startsWith and endsWith.
C30_GridRulesHaveRelation ==
    (editor.host = "grid" /\ FilterSubmitted) =>
        \A k \in 1..Len(filters) :
            /\ DOMAIN filters[k] = {"column", "relation", "value"}
            /\ filters[k].relation \in EvaluatorRelations

\* C29: with no two fetches overlapping, a fetch that completes with the
\* provider's answer leaves the engine with the provider's page for the
\* engine's state as it then stands: data is the answer to the request
\* built from currentPage, pageSize, filters and sorters after the
\* completion, also when the completion clamped currentPage.
C29_DataIsCurrentPage ==
    [][(Len(inflight') < Len(inflight) /\ hist'.resp.kind = "object") =>
          data' = DataSource(PageRequest(currentPage', filters', sorters'),
                             records').data]_vars

\* The rule set of the modal named key that the page holds as committed.
Committed(key) == IF key = "filter" THEN CommittedFilters ELSE CommittedSorters

\* C31: a submit of a modal whose last handler was its opening, no row
\* having been added, removed or edited in between, leaves the committed
\* rule set of that modal equal to what it was, for filters and for
\* sorters, also when the committed set is empty.
C31_OpenSubmitKeepsRules ==
    [][\A key \in ModalKeys :
          (/\ editor.last = [op |-> "open", key |-> key]
           /\ editor'.last = [op |-> "submit", key |-> key]) =>
              Committed(key)' = Committed(key)]_vars

\* C32: in the App, after every handler, the rendered list is the query
\* evaluator's result over getTickets() of the selected storage with the
\* committed filters and sorters.
C32_RenderedIsQueryResult ==
    editor.host = "app" =>
        rendered = SortStep(FilterStep(GetTickets(currentStorage),
                                       currentFilters), currentSorters)

\* ------------------------------------------------- storage strategy claims

\* C33: MemoryStorage and a durable strategy with a working cipher and slot,
\* handed the same save, get, update, delete and list calls, return from
\* every get and list records that read the same in every field, in the
\* same order.
C33_MemoryAndDurableAgree ==
    storeHist.op \in {"get", "list"} => SameList(storeHist.got, storeHist.twin)
\* A list of two records on both, one of them saved or updated with a
\* property of value undefined, which the durable strategy's JSON drops.
C33_Witness ==
    /\ storeHist.op = "list"
    /\ Len(storeHist.got) = 2
    /\ storeHist.got # storeHist.twin
    /\ SameList(storeHist.got, storeHist.twin)

\* The positions of list whose record has another id, in increasing order,
\* as a count: how many of the first n records have another id.
OthersUpTo(list, ticketId, n) ==
    Cardinality({i \in 1..n : list[i].id # ticketId})

\* C34: a deleteTicket(id) that returned removes every record with the id
\* and nothing else: getTickets() afterwards holds the records with another
\* id, each at the place its rank among them gives it, and getTicket(id)
\* finds no record.
C34_DeleteRemovesAllWithId ==
    [][ (storeHist'.op = "delete" /\ ~storeHist'.threw) =>
           LET before == GetTickets(strategy)
               after == GetTickets(strategy)'
               ticketId == storeHist'.id
           IN  /\ Len(after) = OthersUpTo(before, ticketId, Len(before))
               /\ \A i \in 1..Len(before) :
                     before[i].id # ticketId =>
                        after[OthersUpTo(before, ticketId, i)] = before[i]
               /\ \A k \in 1..Len(after) : after[k].id # ticketId
      ]_vars
\* A delete on a durable strategy has returned and left two records, both
\* with another id.
C34_Witness ==
    /\ storeHist.op = "delete" /\ ~storeHist.threw
    /\ strategy \in Durable
    /\ Len(GetTickets(strategy)) = 2
    /\ \A k \in 1..2 : GetTickets(strategy)[k].id # storeHist.id

\* C35: a step of loading, filtering, sorting or paging leaves the
\* collection of every strategy and the data the table pages over
\* unchanged in content and order, and a save, update or delete on the
\* selected strategy leaves the collections of the other two unchanged.
C35_QueriesDoNotMutate ==
    [][/\ storeHist'.op \in {"loadTickets", "mainLoadTickets", "fetchData"} =>
              /\ \A s \in Strategies : GetTickets(s)' = GetTickets(s)
              /\ local'.data = local.data
       /\ storeHist'.op \in {"save", "update", "delete"} =>
              /\ \A s \in Strategies \ {strategy} :
                     GetTickets(s)' = GetTickets(s)
              /\ local'.data = local.data]_vars
\* loadTickets on the volatile strategy has shown B before A while the
\* strategy holds A before B.
C35_Witness ==
    /\ storeHist.op = "loadTickets" /\ currentStorage = "memory"
    /\ currentFilters = <<>>
    /\ Len(rendered) = 2 /\ rendered # memoryTickets
    /\ rendered[1] = memoryTickets[2] /\ rendered[2] = memoryTickets[1]

====
